---------------------------- MODULE Spec2Model ----------------------------
(***************************************************************************)
(* A model of the dataintegrity audit core: the PII column scanner         *)
(* (ingestion/pii.py, ingestion/pii_registry.py), the severity-weighted    *)
(* scorer (integrity/scorer.py, integrity/risk_model.py) and the policy    *)
(* evaluators (policies/research.py, production.py, file_policy.py).       *)
(*                                                                         *)
(* Strings are sequences of one-character strings, so that the regular     *)
(* expressions, the Luhn checksum and the digit-noise filter are computed  *)
(* on the characters as the code computes them.  Floating-point scores are *)
(* exact rationals over fixed denominators (see the scorer section).       *)
(***************************************************************************)
EXTENDS Integers, Sequences, FiniteSets, TLC

VARIABLES
    pii_pc,      \* "ready" before _scan_column is called, "done" after it returned
    pii_col,     \* the column handed to _scan_column: [name, dtype, cells]
    pii_out,     \* what _scan_column computed (locals and the returned report)
    rw_raw,      \* the raw_score the calls of apply_risk_weight are made with
    rw_calls,    \* the calls made so far: {[severity, passed, result]}
    sc_pc,       \* DataScorer.compute: "loop" inside the for loop, "done" once returned
    sc_weights,  \* config.score_weights, the sequence of its items <<[dim, weight]>>
    sc_scores,   \* the dimension_scores argument: dimension -> raw score
    sc_sev,      \* the rule_severities argument: <<>> for None, else <<dimension -> severity>>
    sc_k,        \* the item of score_weights the loop is at
    weighted_sum,\* the local of compute
    breakdown,   \* the local of compute, the sequence of its entries in insertion order
    sc_result,   \* the returned data_score, <<>> until compute returned
    pol_policy,  \* the policy object: [kind] and, for a FilePolicy, its policy_data
    pol_audit,   \* the audit_result handed to evaluate
    pol_result,  \* what evaluate returned, <<>> until it did
    _PLUGIN_REGISTRY, \* plugins._PLUGIN_REGISTRY: rule id -> rule class
    eng_log,     \* the calls of register_rule and deregister_rule that returned, in order
    eng_error,   \* the exception the last call on the engine side raised, "" if it returned
    eng_snapshot,\* the dict get_registered_rules handed out last, <<>> before any call
    eng_result,  \* the DatasetAuditResult of IntegrityEngine.run, <<>> until it returned
    eng_called,  \* the rule functions run() has called, each with what the call did
    dataset_profile, \* dataset.profile of the Dataset handed to run()
    scan_pc,     \* PIIDetector.scan: "ready" before the call, "done" once it is over
    dataset_df,  \* dataset.df, the sequence of its columns
    scan_threshold, \* the sample_threshold argument of scan
    scan_out,    \* <<[error, result]>> once scan is over, <<>> before
    pf_pc,       \* FilePolicy: "ready", then "loaded" or "failed", then "evaluated"
    pf_file,     \* the file at policy_path
    pf_error,    \* the exception the last call on the policy raised, "" if it returned
    pf_data,     \* self.policy_data, <<>> while no policy is constructed
    pf_audit,    \* the audit_result handed to evaluate, <<>> before the call
    pf_result,   \* what evaluate returned, <<>> until it did
    vs_inodes,   \* the files of the store directory, each the text it holds
    vs_store,    \* the file under the store path of the source, 0 if there is none
    vs_tmp,      \* the file under the ".tmp" path of the source, 0 if there is none
    vs_pc,       \* where each call of save is
    vs_payload,  \* the local payload["versions"] of each call
    vs_fd,       \* the file each call's write_text has open
    vs_error,    \* the exception each call of save raised, "" if none
    hist_files,  \* the history directory: fingerprint -> the file <fingerprint>.json
    hist_calls,  \* the results record() was called with, in call order
    hist_out     \* <<what the last load_history or get_score_trend returned>>

pii_vars == <<pii_pc, pii_col, pii_out>>

rw_vars == <<rw_raw, rw_calls>>

sc_vars == <<sc_pc, sc_weights, sc_scores, sc_sev, sc_k, weighted_sum, breakdown, sc_result>>

pol_vars == <<pol_policy, pol_audit, pol_result>>

eng_vars == <<_PLUGIN_REGISTRY, eng_log, eng_error, eng_snapshot, eng_result, eng_called,
              dataset_profile>>

scan_vars == <<scan_pc, dataset_df, scan_threshold, scan_out>>

load_vars == <<pf_pc, pf_file, pf_error, pf_data, pf_audit, pf_result>>

store_vars == <<vs_inodes, vs_store, vs_tmp, vs_pc, vs_payload, vs_fd, vs_error>>

hist_vars == <<hist_files, hist_calls, hist_out>>

vars == <<pii_vars, rw_vars, sc_vars, pol_vars, eng_vars, scan_vars, load_vars, store_vars, hist_vars>>

(***************************************************************************)
(* Characters                                                              *)
(***************************************************************************)
Digit == {"0","1","2","3","4","5","6","7","8","9"}

UpperAZ == {"A","B","C","D","E","F","G","H","I","J","K","L","M","N","O","P","Q","R","S","T","U","V","W","X","Y","Z"}

LowerAZ == {"a","b","c","d","e","f","g","h","i","j","k","l","m","n","o","p","q","r","s","t","u","v","w","x","y","z"}

\* \w of Python's re: letters, digits and the underscore
WordChar == Digit \cup UpperAZ \cup LowerAZ \cup {"_"}

\* \s of Python's re, within the alphabet of the model
SpaceChar == {" "}

\* int(d) for a digit character d
DigitValue(d) ==
    CASE d = "0" -> 0 [] d = "1" -> 1 [] d = "2" -> 2 [] d = "3" -> 3
      [] d = "4" -> 4 [] d = "5" -> 5 [] d = "6" -> 6 [] d = "7" -> 7
      [] d = "8" -> 8 [] d = "9" -> 9

\* [c for c in s if c.isdigit()], in order
RECURSIVE DigitsOf(_)
DigitsOf(s) ==
    IF s = <<>> THEN <<>>
    ELSE IF Head(s) \in Digit THEN <<Head(s)>> \o DigitsOf(Tail(s))
    ELSE DigitsOf(Tail(s))

\* str.isdigit(): non-empty and every character a digit
IsDigitStr(s) == s # <<>> /\ \A i \in 1..Len(s) : s[i] \in Digit

\* a in b for strings: a is a contiguous substring of b
IsSubstring(a, b) ==
    \E i \in 0..(Len(b) - Len(a)) : \A k \in 1..Len(a) : b[i + k] = a[k]

(***************************************************************************)
(* Regular expressions (re.compile / regex.search)                         *)
(*                                                                         *)
(* A pattern is a tree; MatchEnds(re, s, i) is the set of positions j such *)
(* that re matches s[i..j-1].  regex.search succeeds iff some start        *)
(* position has a match.  hi = -1 stands for an unbounded repetition.      *)
(***************************************************************************)
Cls(S) == [t |-> "cls", s |-> S]

Cat(rs) == [t |-> "seq", rs |-> rs]

Rep(r, lo, hi) == [t |-> "rep", r |-> r, lo |-> lo, hi |-> hi]

Opt(r) == Rep(r, 0, 1)

Wb == [t |-> "wb"]

\* \b: exactly one of the characters before and after position i is a word character
IsBoundary(s, i) ==
    LET before == i > 1 /\ i - 1 <= Len(s) /\ s[i - 1] \in WordChar
        after  == i >= 1 /\ i <= Len(s) /\ s[i] \in WordChar
    IN  before # after

RECURSIVE MatchEnds(_, _, _)
RECURSIVE SeqEnds(_, _, _, _)
RECURSIVE RepEnds(_, _, _, _, _, _)

MatchEnds(re, s, i) ==
    CASE re.t = "cls" -> IF i <= Len(s) /\ s[i] \in re.s THEN {i + 1} ELSE {}
      [] re.t = "wb"  -> IF IsBoundary(s, i) THEN {i} ELSE {}
      [] re.t = "seq" -> SeqEnds(re.rs, 1, s, {i})
      [] re.t = "rep" -> RepEnds(re.r, re.lo, re.hi, s, {i}, 0)

SeqEnds(rs, k, s, P) ==
    IF k > Len(rs) \/ P = {} THEN P
    ELSE SeqEnds(rs, k + 1, s, UNION {MatchEnds(rs[k], s, p) : p \in P})

\* P: the positions reached after exactly n repetitions
RepEnds(r, lo, hi, s, P, n) ==
    LET here == IF n >= lo THEN P ELSE {}
    IN  IF P = {} \/ (hi >= 0 /\ n >= hi) \/ n > Len(s) THEN here
        ELSE here \cup RepEnds(r, lo, hi, s, UNION {MatchEnds(r, s, p) : p \in P}, n + 1)

\* regex.search(val) is not None
Search(re, s) == \E i \in 1..(Len(s) + 1) : MatchEnds(re, s, i) # {}

\* series.str.match / re.match: a match starting at the first character
MatchAtStart(re, s) == MatchEnds(re, s, 1) # {}

D == Cls(Digit)

(***************************************************************************)
(* core/config.py: IntegrityConfig.pii_patterns (insertion order kept)     *)
(***************************************************************************)
EmailLocal == Cls(WordChar \cup {".", "+", "-"})

EmailRegex ==
    Cat(<<Rep(EmailLocal, 1, -1), Cls({"@"}),
          Rep(Cls((WordChar \ {"_"}) \cup {"-"}), 1, -1), Cls({"."}),
          Rep(Cls((WordChar \ {"_"}) \cup {"-", "."}), 1, -1)>>)

PhoneRegex ==
    Cat(<<Wb, Opt(Cls({"+"})), D,
          Rep(Cls(Digit \cup SpaceChar \cup {"-", "(", ")", "."}), 7, -1), D, Wb>>)

SsnRegex ==
    Cat(<<Wb, Rep(D, 3, 3), Opt(Cls({"-"} \cup SpaceChar)), Rep(D, 2, 2),
          Opt(Cls({"-"} \cup SpaceChar)), Rep(D, 4, 4), Wb>>)

CreditCardRegex ==
    Cat(<<Wb, Rep(Cat(<<D, Opt(Cls({" ", "-"}))>>), 13, 16), Wb>>)

pii_patterns ==
    << [name |-> "email",       regex |-> EmailRegex],
       [name |-> "phone",       regex |-> PhoneRegex],
       [name |-> "ssn",         regex |-> SsnRegex],
       [name |-> "credit_card", regex |-> CreditCardRegex] >>

(***************************************************************************)
(* ingestion/pii_registry.py                                               *)
(***************************************************************************)
AadhaarRegex ==
    Cat(<<Wb, Rep(D, 4, 4), Opt(Cls(SpaceChar)), Rep(D, 4, 4),
          Opt(Cls(SpaceChar)), Rep(D, 4, 4), Wb>>)

PanRegex == Cat(<<Wb, Rep(Cls(UpperAZ), 5, 5), Rep(D, 4, 4), Rep(Cls(UpperAZ), 1, 1), Wb>>)

GstinRegex ==
    Cat(<<Wb, Rep(D, 2, 2), Rep(Cls(UpperAZ), 5, 5), Rep(D, 4, 4), Rep(Cls(UpperAZ), 1, 1),
          Rep(Cls(UpperAZ \cup Digit), 1, 1), Rep(Cls({"Z"}), 1, 1),
          Rep(Cls(UpperAZ \cup Digit), 1, 1), Wb>>)

NiUkRegex ==
    Cat(<<Wb, Rep(Cls(UpperAZ \ {"D","F","I","Q","U","V"}), 1, 1),
          Rep(Cls(UpperAZ \ {"D","F","I","O","Q","U","V"}), 1, 1),
          Opt(Cls(SpaceChar)), Rep(D, 2, 2), Opt(Cls(SpaceChar)), Rep(D, 2, 2),
          Opt(Cls(SpaceChar)), Rep(D, 2, 2), Opt(Cls(SpaceChar)),
          Rep(Cls({"A","B","C","D"}), 1, 1), Wb>>)

IbanRegex ==
    Cat(<<Wb, Rep(Cls(UpperAZ), 2, 2), Rep(D, 2, 2), Rep(Cls(UpperAZ \cup Digit), 4, 4),
          Rep(D, 7, 7), Rep(Opt(Cls(UpperAZ \cup Digit)), 0, 16), Wb>>)

PassportRegex == Cat(<<Wb, Rep(Cls(UpperAZ \cup Digit), 6, 9), Wb>>)

PIIEntity(type, category, country, regex, risk_level, confidence, priority) ==
    [type |-> type, category |-> category, country |-> country, regex |-> regex,
     risk_level |-> risk_level, confidence |-> confidence, priority |-> priority]

GLOBAL_PII_REGISTRY ==
    << PIIEntity("ssn_us",        "identity",  "US",     SsnRegex,        "high", "high",   2),
       PIIEntity("aadhaar_india", "identity",  "IN",     AadhaarRegex,    "high", "high",   2),
       PIIEntity("pan_india",     "identity",  "IN",     PanRegex,        "high", "high",   2),
       PIIEntity("gstin_india",   "identity",  "IN",     GstinRegex,      "high", "high",   2),
       PIIEntity("ni_uk",         "identity",  "UK",     NiUkRegex,       "high", "high",   2),
       PIIEntity("credit_card",   "financial", "global", CreditCardRegex, "high", "high",   1),
       PIIEntity("iban",          "financial", "global", IbanRegex,       "high", "high",   3),
       PIIEntity("passport",      "identity",  "global", PassportRegex,   "high", "medium", 4) >>

\* reverse_digits = digits[::-1]
Reverse(s) == [i \in 1..Len(s) |-> s[Len(s) + 1 - i]]

\* the per-digit term of the checksum; i is the 0-based index in reverse_digits
LuhnTerm(digit, i) ==
    IF i % 2 = 1
    THEN (IF digit * 2 > 9 THEN digit * 2 - 9 ELSE digit * 2)
    ELSE digit

RECURSIVE LuhnSum(_, _)
LuhnSum(rev, i) ==
    IF i > Len(rev) THEN 0
    ELSE LuhnTerm(DigitValue(rev[i]), i - 1) + LuhnSum(rev, i + 1)

luhn_check(number) ==
    LET digits == DigitsOf(number)
    IN  IF digits = <<>> THEN FALSE
        ELSE LuhnSum(Reverse(digits), 1) % 10 = 0


(***************************************************************************)
(* ingestion/pii.py: PIIDetector._is_noisy                                 *)
(***************************************************************************)
Ascending == <<"0","1","2","3","4","5","6","7","8","9">>

Descending == <<"9","8","7","6","5","4","3","2","1","0">>

NoisyMinDigits == 4

\* a filter that knows repeated digits only
_is_noisy_RepeatsOnly(val) ==
    LET clean == DigitsOf(val)
    IN  clean # <<>> /\ Cardinality({clean[i] : i \in 1..Len(clean)}) = 1
                     /\ Len(clean) > NoisyMinDigits

_is_noisy(val) ==
    LET clean == DigitsOf(val)
    IN  IF clean = <<>> THEN FALSE
        ELSE IF Cardinality({clean[i] : i \in 1..Len(clean)}) = 1 /\ Len(clean) > NoisyMinDigits
             THEN TRUE
        ELSE IF (IsSubstring(clean, Ascending) \/ IsSubstring(clean, Descending))
                /\ Len(clean) > NoisyMinDigits
             THEN TRUE
        ELSE FALSE

(***************************************************************************)
(* ingestion/pii.py: calculate_shannon_entropy, compared with 2.0          *)
(*                                                                         *)
(* entropy = -sum p log2 p with p = n_x / L, so                            *)
(*   entropy < 2.0  iff  L log2 L - sum n_x log2 n_x < 2 L.                *)
(* Log2Micro[k] is log2(k) in millionths.                                  *)
(***************************************************************************)
Log2Micro ==
    <<0, 1000000, 1584963, 2000000, 2321928, 2584963, 2807355, 3000000, 3169925,
      3321928, 3459432, 3584963, 3700440, 3807355, 3906891, 4000000, 4087463,
      4169925, 4247928, 4321928, 4392317, 4459432, 4523562, 4584963, 4643856,
      4700440, 4754888, 4807355, 4857981, 4906891, 4954196, 5000000>>

\* value_counts(): the number of occurrences of character c in text
CountChar(text, c) == Cardinality({i \in 1..Len(text) : text[i] = c})

RECURSIVE SumNLogN(_, _)
SumNLogN(text, chars) ==
    IF chars = {} THEN 0
    ELSE LET c == CHOOSE x \in chars : TRUE
             n == CountChar(text, c)
         IN  n * Log2Micro[n] + SumNLogN(text, chars \ {c})

\* calculate_shannon_entropy(text) < 2.0
EntropyBelowTwo(text) ==
    IF text = <<>> THEN TRUE
    ELSE Len(text) * Log2Micro[Len(text)]
            - SumNLogN(text, {text[i] : i \in 1..Len(text)})
         < 2 * 1000000 * Len(text)

(***************************************************************************)
(* A pandas Series: [name, dtype, cells].  A cell is NULL or the string    *)
(* astype(str) gives for it; dtype is "object", "int64" or "float64".      *)
(***************************************************************************)
NULL == <<"<NA>">>

\* series.dropna().astype(str), keeping each value's row index
string_values(series) ==
    LET keep == {i \in 1..Len(series.cells) : series.cells[i] # NULL}
        nth[k \in 1..Cardinality(keep)] ==
            CHOOSE i \in keep : Cardinality({j \in keep : j < i}) = k - 1
    IN  [k \in 1..Cardinality(keep) |-> [idx |-> nth[k], val |-> series.cells[nth[k]]]]

\* pd.api.types.is_numeric_dtype(series)
is_numeric_dtype(series) == series.dtype \in {"int64", "float64"}

\* x % 1 != 0 for a number printed as s: a non-zero digit after the decimal point
HasFraction(s) ==
    \E i \in 1..Len(s) : s[i] = "." /\ \E j \in (i + 1)..Len(s) : s[j] \in Digit \ {"0"}

\* Series.head(n)
HeadN(sq, n) == SubSeq(sq, 1, IF Len(sq) < n THEN Len(sq) ELSE n)

NumericSampleRows == 1000

has_decimals(series) ==
    IF is_numeric_dtype(series)
    THEN LET sample_numeric == HeadN(string_values(series), NumericSampleRows)
         IN  \E k \in 1..Len(sample_numeric) : HasFraction(sample_numeric[k].val)
    ELSE FALSE

(***************************************************************************)
(* ingestion/pii.py: PIIDetector._scan_column, candidate generation        *)
(*                                                                         *)
(* row_matches is a dict idx -> list; it is kept as the sequence of its    *)
(* items in insertion order, <<[idx, matches]>>.                           *)
(***************************************************************************)
LegacyPriority == 99

\* row_matches[idx].append(cand), creating the entry when idx is new
AddMatch(rm, idx, cand) ==
    IF \E k \in 1..Len(rm) : rm[k].idx = idx
    THEN [k \in 1..Len(rm) |->
            IF rm[k].idx = idx
            THEN [idx |-> idx, matches |-> Append(rm[k].matches, cand)]
            ELSE rm[k]]
    ELSE Append(rm, [idx |-> idx, matches |-> <<cand>>])

LegacyCandidate(pattern_name) ==
    [type |-> pattern_name, priority |-> LegacyPriority, category |-> "legacy",
     risk_level |-> IF pattern_name \in {"email", "phone"} THEN "medium" ELSE "low",
     confidence |-> "high", has_val |-> FALSE, val |-> <<>>]

EntityCandidate(entity, val) ==
    [type |-> entity.type, priority |-> entity.priority, category |-> entity.category,
     risk_level |-> entity.risk_level, confidence |-> entity.confidence,
     has_val |-> TRUE, val |-> val]

\* lines 179-187: a value of the column is accepted as a match of a configured pattern
LegacyAccepts(p, val, is_numeric) ==
    /\ Search(p.regex, val)
    /\ ~ _is_noisy(val)
    /\ ~ (is_numeric /\ p.name = "phone" /\ IsDigitStr(val))

\* lines 205-216: a value of the column is accepted as a match of a registry entity
EntityAccepts(entity, val, is_numeric) ==
    /\ Search(entity.regex, val)
    /\ ~ (entity.type = "credit_card" /\ ~ luhn_check(val))
    /\ ~ _is_noisy(val)
    /\ ~ (is_numeric /\ entity.type = "passport" /\ IsDigitStr(val))

\* the inner loop over the rows, for one configured pattern
RECURSIVE LegacyRows(_, _, _, _, _)
LegacyRows(p, sv, j, rm, is_numeric) ==
    IF j > Len(sv) THEN rm
    ELSE LegacyRows(p, sv, j + 1,
                    IF LegacyAccepts(p, sv[j].val, is_numeric)
                    THEN AddMatch(rm, sv[j].idx, LegacyCandidate(p.name))
                    ELSE rm,
                    is_numeric)

\* lines 173-196: the loop over self._compiled
RECURSIVE LegacyLoop(_, _, _, _, _)
LegacyLoop(k, sv, rm, is_numeric, decimals) ==
    IF k > Len(pii_patterns) THEN rm
    ELSE LegacyLoop(k + 1, sv,
                    IF decimals /\ pii_patterns[k].name \in {"phone", "ssn", "credit_card"}
                    THEN rm
                    ELSE LegacyRows(pii_patterns[k], sv, 1, rm, is_numeric),
                    is_numeric, decimals)

\* the inner loop over the rows, for one registry entity
RECURSIVE EntityRows(_, _, _, _, _)
EntityRows(entity, sv, j, rm, is_numeric) ==
    IF j > Len(sv) THEN rm
    ELSE EntityRows(entity, sv, j + 1,
                    IF EntityAccepts(entity, sv[j].val, is_numeric)
                    THEN AddMatch(rm, sv[j].idx, EntityCandidate(entity, sv[j].val))
                    ELSE rm,
                    is_numeric)

\* lines 199-226: the loop over self._global_compiled
RECURSIVE EntityLoop(_, _, _, _, _)
EntityLoop(k, sv, rm, is_numeric, decimals) ==
    IF k > Len(GLOBAL_PII_REGISTRY) THEN rm
    ELSE EntityLoop(k + 1, sv,
                    IF decimals /\ GLOBAL_PII_REGISTRY[k].category \in {"identity", "financial"}
                    THEN rm
                    ELSE EntityRows(GLOBAL_PII_REGISTRY[k], sv, 1, rm, is_numeric),
                    is_numeric, decimals)

\* row_matches as it stands when both loops are over
RowMatches(series) ==
    LET sv == string_values(series)
        is_numeric == is_numeric_dtype(series)
        decimals == has_decimals(series)
    IN  EntityLoop(1, sv, LegacyLoop(1, sv, <<>>, is_numeric, decimals), is_numeric, decimals)

(***************************************************************************)
(* _scan_column, priority resolution                                       *)
(***************************************************************************)
\* one step of a stable sort: x goes after every element whose key is <= its own
InsertByPriority(sorted, x) ==
    LET k == Cardinality({i \in 1..Len(sorted) : sorted[i].priority <= x.priority})
    IN  SubSeq(sorted, 1, k) \o <<x>> \o SubSeq(sorted, k + 1, Len(sorted))

\* sorted(matches, key=lambda x: x["priority"]): ascending and stable
RECURSIVE SortedByPriority(_)
SortedByPriority(matches) ==
    IF matches = <<>> THEN <<>>
    ELSE InsertByPriority(SortedByPriority(SubSeq(matches, 1, Len(matches) - 1)),
                          matches[Len(matches)])

\* a resolution that keeps the first candidate generated, whatever its priority
BestMatch_FirstGenerated(matches) == matches[1]

\* line 234
BestMatch(matches) == SortedByPriority(matches)[1]

\* lines 232-236
ResolvedMatches(rm) == [k \in 1..Len(rm) |-> BestMatch(rm[k].matches)]

(***************************************************************************)
(* _scan_column, column-level aggregation                                  *)
(***************************************************************************)
\* Python's round(num / den, 0) for num / den exact: to the nearest, ties to even
RoundHalfEven(num, den) ==
    LET a == IF num < 0 THEN 0 - num ELSE num
        q == a \div den
        r == a % den
        m == IF 2 * r < den THEN q
             ELSE IF 2 * r > den THEN q + 1
             ELSE IF q % 2 = 0 THEN q ELSE q + 1
    IN  IF num < 0 THEN 0 - m ELSE m

RatioScale == 10000

\* round(count / scan_total, 4), in ten-thousandths
RoundedRatio(count, scan_total) == RoundHalfEven(count * RatioScale, scan_total)

\* lines 239-242: type_counts as the sequence of its items, in insertion order
RECURSIVE TypeCounts(_, _, _)
TypeCounts(resolved, k, tc) ==
    IF k > Len(resolved) THEN tc
    ELSE LET t == resolved[k].type
         IN  TypeCounts(resolved, k + 1,
                 IF \E j \in 1..Len(tc) : tc[j].type = t
                 THEN [j \in 1..Len(tc) |->
                         IF tc[j].type = t THEN [type |-> t, count |-> tc[j].count + 1]
                         ELSE tc[j]]
                 ELSE Append(tc, [type |-> t, count |-> 1]))

\* line 248: next(m for m in resolved_matches if m["type"] == t)
SampleMatch(resolved, t) ==
    resolved[CHOOSE k \in 1..Len(resolved) :
                /\ resolved[k].type = t
                /\ \A j \in 1..(k - 1) : resolved[j].type # t]

\* lines 251-260: a type's matches are dropped by the ratio or the entropy check
RejectedType(sample_match, count, scan_total) ==
    \/ count * 100 < scan_total /\ sample_match.confidence # "high"
    \/ /\ sample_match.has_val
       /\ EntropyBelowTwo(sample_match.val)
       /\ sample_match.confidence # "high"

Finding(col_name, t, category, risk, confidence, matches, scan_total) ==
    [column |-> col_name, dominant_type |-> t, category |-> category,
     highest_risk |-> risk, confidence |-> confidence, matches |-> matches,
     match_ratio |-> RoundedRatio(matches, scan_total)]

\* lines 244-270
RECURSIVE RegistryFindings(_, _, _, _, _)
RegistryFindings(col_name, resolved, tc, k, scan_total) ==
    IF k > Len(tc) THEN <<>>
    ELSE LET sample_match == SampleMatch(resolved, tc[k].type)
             rest == RegistryFindings(col_name, resolved, tc, k + 1, scan_total)
         IN  IF RejectedType(sample_match, tc[k].count, scan_total) THEN rest
             ELSE <<Finding(col_name, tc[k].type, sample_match.category,
                            sample_match.risk_level, sample_match.confidence,
                            tc[k].count, scan_total)>> \o rest

(***************************************************************************)
(* _scan_column, generic identifier heuristic                              *)
(***************************************************************************)
UpperSeq == <<"A","B","C","D","E","F","G","H","I","J","K","L","M","N","O","P","Q","R","S","T","U","V","W","X","Y","Z">>

LowerSeq == <<"a","b","c","d","e","f","g","h","i","j","k","l","m","n","o","p","q","r","s","t","u","v","w","x","y","z">>

\* str.lower()
Lower(s) ==
    [i \in 1..Len(s) |->
        IF s[i] \in UpperAZ
        THEN LowerSeq[CHOOSE k \in 1..Len(UpperSeq) : UpperSeq[k] = s[i]]
        ELSE s[i]]

keywords ==
    << <<"i","d">>,
       <<"i","d","e","n","t","i","f","i","e","r">>,
       <<"n","a","t","i","o","n","a","l">>,
       <<"t","a","x">>,
       <<"g","o","v">>,
       <<"r","e","g","i","s","t","r","a","t","i","o","n">> >>

\* series.nunique(): the number of distinct non-null values
nunique(series) ==
    Cardinality({series.cells[i] : i \in {j \in 1..Len(series.cells) : series.cells[j] # NULL}})

RECURSIVE SumLen(_, _)
SumLen(sv, k) == IF k > Len(sv) THEN 0 ELSE Len(sv[k].val) + SumLen(sv, k + 1)

HeuristicSampleRows == 100

MinAvgLen == 8

MaxAvgLen == 20

\* a heuristic whose length window is open at both ends: 8 < avg_len < 20
HeuristicApplies_OpenWindow(col_name, series, scan_total) ==
    LET sample_str == HeadN(string_values(series), HeuristicSampleRows)
    IN  /\ \E k \in 1..Len(keywords) : IsSubstring(keywords[k], Lower(col_name))
        /\ MinAvgLen * Len(sample_str) < SumLen(sample_str, 1)
        /\ SumLen(sample_str, 1) < MaxAvgLen * Len(sample_str)
        /\ 10 * nunique(series) > 8 * scan_total

\* lines 275-279: the three conditions of the heuristic
HeuristicApplies(col_name, series, scan_total) ==
    LET sample_str == HeadN(string_values(series), HeuristicSampleRows)
    IN  /\ \E k \in 1..Len(keywords) : IsSubstring(keywords[k], Lower(col_name))
        /\ MinAvgLen * Len(sample_str) <= SumLen(sample_str, 1)
        /\ SumLen(sample_str, 1) <= MaxAvgLen * Len(sample_str)
        /\ 10 * nunique(series) > 8 * scan_total

(***************************************************************************)
(* PIIDetector._scan_column(col_name, series, scan_total): its locals and  *)
(* the report it returns                                                   *)
(***************************************************************************)
EmptyScan ==
    [row_matches |-> <<>>, resolved_matches |-> <<>>,
     report |-> [pii_detected |-> FALSE, count |-> 0, patterns_hit |-> <<>>,
                 pii_findings |-> <<>>]]

_scan_column(col_name, series, scan_total) ==
    LET sv == string_values(series)
        row_matches == RowMatches(series)
        resolved_matches == ResolvedMatches(row_matches)
        rows_hit == {row_matches[k].idx : k \in 1..Len(row_matches)}
        type_counts == TypeCounts(resolved_matches, 1, <<>>)
        found == RegistryFindings(col_name, resolved_matches, type_counts, 1, scan_total)
        heuristic == found = <<>> /\ HeuristicApplies(col_name, series, scan_total)
        pii_findings ==
            IF heuristic
            THEN <<Finding(col_name, "unknown_structured_identifier", "identity",
                           "medium", "medium", Len(sv), scan_total)>>
            ELSE found
        rows_with_any_hit ==
            IF heuristic THEN rows_hit \cup {sv[k].idx : k \in 1..Len(sv)} ELSE rows_hit
        pii_count == Cardinality(rows_with_any_hit)
    IN  IF sv = <<>> THEN EmptyScan
        ELSE [row_matches |-> row_matches,
              resolved_matches |-> resolved_matches,
              report |-> [pii_detected |-> pii_count > 0 \/ Len(pii_findings) > 0,
                          count |-> pii_count,
                          patterns_hit |-> type_counts,
                          pii_findings |-> pii_findings]]

(***************************************************************************)
(* The columns _scan_column is run on                                      *)
(***************************************************************************)
MaxRows == 2

ObjectValues ==
    { <<"4","5","3","2"," ","0","1","5","1"," ","1","2","8","3"," ","0","3","6","6">>,
      <<"1","2","1","2"," ","3","4","3","4"," ","5","6","5","6">>,
      <<"4","5","3","-","2","0","-","1","5","1","1">>,
      <<"4","5","3","2","0","1","5","1","1","2","8","3","0","3">>,
      <<"0","0","0","0","0","0","0","0","0">>,
      <<"h","e","l","l","o">>,
      <<"4","5","3","2","0","1","5","1","1"," ","1","2","1","2","3","4","3","4","5","6","5","6">>,
      <<"a","@","b",".","c","o">>,
      <<"X","9","K","2","M","4","Q","7">>,
      <<"I","D",".","X",".","Y",".","Z",".","0","0","1">> }

\* values that meet the guardrails: digit runs, a low-entropy code, and plain
\* strings of 4, 12 and 28 characters
GuardrailValues ==
    { <<"1","2","3","-","4","5","-","6","7","8","9">>,
      <<"0","1","2","-","3","4","-","5","6","7","9">>,
      <<"A","9","8","7","6","5">>,
      <<"A","B","1","2","3","4">>,
      <<"A","A","B","B","A","A">>,
      <<"h","e","l","l">>,
      <<"I","D",".","X",".","Y",".","Z",".","0","0","1">>,
      <<"#","/","#","/","#","/","#","/","#","/","#","/","#","/","#","/","#","/","#","/","#","/","#","/","#","/","#","/">> }

IntValues ==
    { <<"4","5","3","2","0","1","5","1","1">>,
      <<"4","5","3","2","0","1","5","1","1","2","8","3","0","3","6","6">>,
      <<"4","5","3","2","0","1","5","1","1","2","8","3","0","3">>,
      <<"7">> }

FloatValues ==
    { <<"1","2",".","5">>,
      <<"4","5","3","2","0","1","5","1","1",".","0">> }

ColumnNames ==
    { <<"m","i","x","e","d","_","c","o","l">>,
      <<"N","a","t","i","o","n","a","l","_","I","D">> }

SeqsUpTo(S, n) == UNION {[1..k -> S] : k \in 0..n}

Columns ==
    {[name |-> nm, dtype |-> "object", cells |-> c] :
        nm \in ColumnNames, c \in SeqsUpTo(ObjectValues \cup {NULL}, MaxRows)}
    \cup {[name |-> nm, dtype |-> "object", cells |-> c] :
        nm \in ColumnNames, c \in SeqsUpTo(GuardrailValues \cup {NULL}, MaxRows)}
    \cup {[name |-> nm, dtype |-> "int64", cells |-> c] :
        nm \in ColumnNames, c \in SeqsUpTo(IntValues, MaxRows)}
    \cup {[name |-> nm, dtype |-> "float64", cells |-> c] :
        nm \in ColumnNames, c \in SeqsUpTo(FloatValues \cup {NULL}, MaxRows)}

PiiInit ==
    /\ pii_pc = "ready"
    /\ pii_col \in Columns
    /\ pii_out = EmptyScan

\* no column is being scanned
PiiIdle ==
    /\ pii_pc = "idle"
    /\ pii_col = [name |-> <<>>, dtype |-> "object", cells |-> <<>>]
    /\ pii_out = EmptyScan

\* scan() line 111 calls _scan_column with scan_total = the number of rows scanned
ScanColumn ==
    /\ pii_pc = "ready"
    /\ pii_out' = _scan_column(pii_col.name, pii_col, Len(pii_col.cells))
    /\ pii_pc' = "done"
    /\ UNCHANGED pii_col


(***************************************************************************)
(* integrity/risk_model.py                                                 *)
(*                                                                         *)
(* A score is an integer number of 1/ScoreDen; the raw scores of the model *)
(* are multiples of 6/ScoreDen, so raw / 1.5 and raw / 2.0 are exact.      *)
(* A severity weight is kept as twice its value (1.0, 1.5, 2.0 -> 2, 3, 4).*)
(***************************************************************************)
ScoreDen == 6 * 100

One == ScoreDen

SeverityNames == {"LOW", "MEDIUM", "HIGH"}

\* a weight table with the weights of LOW and HIGH exchanged
SEVERITY_WEIGHTS_Exchanged(sev) ==
    CASE sev = "LOW" -> 4 [] sev = "MEDIUM" -> 3 [] sev = "HIGH" -> 2

\* SEVERITY_WEIGHTS, doubled
SEVERITY_WEIGHTS(sev) ==
    CASE sev = "LOW" -> 2 [] sev = "MEDIUM" -> 3 [] sev = "HIGH" -> 4

\* SEVERITY_WEIGHTS.get(key, 1.0), doubled
SeverityWeightGet(key) == IF key \in SeverityNames THEN SEVERITY_WEIGHTS(key) ELSE 2

DEFAULT_PASS_THRESHOLD == ScoreDen \div 2

\* str.upper() on the severity strings of the model
Upper(sev) ==
    CASE sev = "low" -> "LOW" [] sev = "medium" -> "MEDIUM" [] sev = "high" -> "HIGH"
      [] OTHER -> sev

\* max(0.0, min(1.0, x))
Clamp01(x) ==
    LET m == IF x < One THEN x ELSE One
    IN  IF m > 0 THEN m ELSE 0

\* a weighting that penalises a rule whether it passed or not
apply_risk_weight_AlwaysPenalised(raw_score, severity, passed) ==
    LET weight == SeverityWeightGet(IF severity # "" THEN Upper(severity) ELSE "LOW")
    IN  Clamp01((raw_score * 2) \div weight)

apply_risk_weight(raw_score, severity, passed) ==
    IF passed THEN Clamp01(raw_score)
    ELSE LET weight == SeverityWeightGet(IF severity # "" THEN Upper(severity) ELSE "LOW")
             penalised == (raw_score * 2) \div weight
         IN  Clamp01(penalised)

(***************************************************************************)
(* Calls of apply_risk_weight on one raw score                             *)
(***************************************************************************)
RawStep == ScoreDen \div 4

MinRawK == 0 - 1

MaxRawK == 6

\* -0.25, 0, 0.25, ..., 1.5
RawScores == {RawStep * k : k \in MinRawK..MaxRawK}

SeverityInputs == {"LOW", "MEDIUM", "HIGH", "high", "CRITICAL", ""}

MaxCalls == 3

RiskInit ==
    /\ rw_raw \in RawScores
    /\ rw_calls = {}

RiskIdle ==
    /\ rw_raw = 0
    /\ rw_calls = {}

ApplyRiskWeight(severity, passed) ==
    /\ Cardinality(rw_calls) < MaxCalls
    /\ rw_calls' = rw_calls \cup {[severity |-> severity, passed |-> passed,
                                    result |-> apply_risk_weight(rw_raw, severity, passed)]}
    /\ UNCHANGED rw_raw

RiskNext == \E severity \in SeverityInputs, passed \in BOOLEAN : ApplyRiskWeight(severity, passed)

(***************************************************************************)
(* integrity/scorer.py: DataScorer.compute                                 *)
(*                                                                         *)
(* A weight is an integer number of 1/WeightSteps; weighted_sum is in      *)
(* 1/(ScoreDen * WeightSteps); data_score is in hundredths and the rounded *)
(* figures of the breakdown in ten-thousandths.                            *)
(***************************************************************************)
WeightSteps == 4

ScoreDims == <<"completeness", "uniqueness">>

\* a dimension that rules may score and the weight table does not name
ExtraDims == {"custom_rule"}

\* the weight tables that pass IntegrityConfig.validate: they sum to 1.0
WeightTables ==
    {w \in [1..Len(ScoreDims) -> 0..WeightSteps] : w[1] + w[2] = WeightSteps}

\* a dict with keys among K and values in V
Dicts(K, V) == UNION {[S -> V] : S \in SUBSET K}

\* d.get(k, default)
Get(d, k, default) == IF k \in DOMAIN d THEN d[k] ELSE default

ScoreInit ==
    /\ sc_pc = "loop"
    /\ \E w \in WeightTables :
          sc_weights = [i \in 1..Len(ScoreDims) |-> [dim |-> ScoreDims[i], weight |-> w[i]]]
    /\ \E d \in Dicts({ScoreDims[i] : i \in 1..Len(ScoreDims)}, RawScores),
          e \in Dicts(ExtraDims, {One}) :
          sc_scores = [k \in DOMAIN d \cup DOMAIN e |-> IF k \in DOMAIN d THEN d[k] ELSE e[k]]
    /\ sc_sev \in {<<>>} \cup
          {<<m>> : m \in Dicts({ScoreDims[i] : i \in 1..Len(ScoreDims)}, SeverityNames)}
    /\ sc_k = 1
    /\ weighted_sum = 0
    /\ breakdown = <<>>
    /\ sc_result = <<>>

ScoreIdle ==
    /\ sc_pc = "idle"
    /\ sc_weights = <<>>
    /\ sc_scores = <<>>
    /\ sc_sev = <<>>
    /\ sc_k = 0
    /\ weighted_sum = 0
    /\ breakdown = <<>>
    /\ sc_result = <<>>

\* round(x, 4) of x = num / den, in ten-thousandths
Round4(num, den) == RoundHalfEven(num * RatioScale, den)

\* an adjustment that records the severity and leaves the score as it is
AdjustedScore_Unweighted(dimension, raw_score, rule_severities) ==
    [severity |-> IF rule_severities # <<>>
                  THEN Get(rule_severities[1], dimension, "LOW") ELSE "N/A",
     adjusted_score |-> raw_score]

\* lines 101-107: the severity recorded and the adjusted score of one dimension
AdjustedScore(dimension, raw_score, rule_severities) ==
    IF rule_severities # <<>>
    THEN LET severity == Get(rule_severities[1], dimension, "LOW")
             passed == raw_score >= DEFAULT_PASS_THRESHOLD
         IN  [severity |-> severity,
              adjusted_score |-> apply_risk_weight(raw_score, severity, passed)]
    ELSE [severity |-> "N/A", adjusted_score |-> raw_score]

\* lines 97-118: one iteration of the loop over weights.items()
ComputeStep ==
    /\ sc_pc = "loop"
    /\ sc_k <= Len(sc_weights)
    /\ LET dimension == sc_weights[sc_k].dim
           weight == sc_weights[sc_k].weight
           raw_score == Get(sc_scores, dimension, 0)
           adj == AdjustedScore(dimension, raw_score, sc_sev)
           contribution == adj.adjusted_score * weight
       IN  /\ weighted_sum' = weighted_sum + contribution
           /\ breakdown' = Append(breakdown,
                  [dimension |-> dimension,
                   raw_score |-> Round4(raw_score, ScoreDen),
                   adjusted_score |-> Round4(adj.adjusted_score, ScoreDen),
                   severity |-> adj.severity,
                   weight |-> weight,
                   contribution |-> Round4(contribution, ScoreDen * WeightSteps)])
    /\ sc_k' = sc_k + 1
    /\ UNCHANGED <<sc_pc, sc_weights, sc_scores, sc_sev, sc_result>>

\* round(weighted_sum * 100, 2), in hundredths
DataScore(sum) == RoundHalfEven(sum * 100 * 100, ScoreDen * WeightSteps)

\* lines 120-126
ComputeReturn ==
    /\ sc_pc = "loop"
    /\ sc_k > Len(sc_weights)
    /\ sc_result' = <<DataScore(weighted_sum)>>
    /\ sc_pc' = "done"
    /\ UNCHANGED <<sc_weights, sc_scores, sc_sev, sc_k, weighted_sum, breakdown>>


(***************************************************************************)
(* policies/: audit records and verdicts                                   *)
(*                                                                         *)
(* A dict is a function from its keys; a key that is absent is not in its  *)
(* DOMAIN.  overall_score is in hundredths, dimension scores and           *)
(* thresholds in thousandths, match ratios in ten-thousandths.             *)
(***************************************************************************)
\* Python's None as a value stored under a key
PyNone == [py_none |-> TRUE]

\* {**f, **g} for dicts with disjoint keys
Merge(f, g) == [k \in DOMAIN f \cup DOMAIN g |-> IF k \in DOMAIN f THEN f[k] ELSE g[k]]

Violation(kind, subject) == [kind |-> kind, subject |-> subject]

\* len([r["column"] for r in drift_results if r.get("drift_detected")])
DriftedCount(drift_results) ==
    Cardinality({i \in 1..Len(drift_results) : Get(drift_results[i], "drift_detected", FALSE)})

\* lines 47-51 of research.py: one violation per characteristic whose status is CRITICAL
RECURSIVE CriticalViolations(_, _)
CriticalViolations(characteristics, k) ==
    IF k > Len(characteristics) THEN <<>>
    ELSE (IF Get(characteristics[k].info, "status", "") = "CRITICAL"
          THEN <<Violation("iso", characteristics[k].name)>>
          ELSE <<>>) \o CriticalViolations(characteristics, k + 1)

\* standards and standards.get("characteristics"); characteristics is the sequence of
\* the dict's items <<[name, info]>>
IsoViolations(audit_result) ==
    LET standards == Get(audit_result, "standards_alignment", PyNone)
    IN  IF standards # PyNone /\ Get(standards, "characteristics", <<>>) # <<>>
        THEN CriticalViolations(standards["characteristics"], 1)
        ELSE <<>>

\* a verdict whose status has lost its negation
Verdict_Inverted(name, violations) ==
    [policy |-> name, status |-> IF violations # <<>> THEN "PASS" ELSE "FAIL",
     violations |-> violations]

\* lines 53-57 of research.py, lines 40-44 of production.py
Verdict(name, violations) ==
    [policy |-> name, status |-> IF violations = <<>> THEN "PASS" ELSE "FAIL",
     violations |-> violations]

Research_MIN_DATASCORE == 90 * 100

Research_MIN_COMPLETENESS == 950

Research_MAX_DRIFTED_COLUMNS == 2

\* an evaluation that stops at the first check that fails
ResearchPolicy_evaluate_FirstFailure(audit_result) ==
    LET score == Get(audit_result, "overall_score", 0)
        dim_scores == Get(audit_result, "dimension_scores", <<>>)
        comp_score == Get(dim_scores, "completeness", 0)
        drifted == DriftedCount(Get(audit_result, "drift_results", <<>>))
    IN  IF score < Research_MIN_DATASCORE
        THEN Verdict("research", <<Violation("datascore", "")>>)
        ELSE IF comp_score < Research_MIN_COMPLETENESS
        THEN Verdict("research", <<Violation("completeness", "")>>)
        ELSE IF drifted > Research_MAX_DRIFTED_COLUMNS
        THEN Verdict("research", <<Violation("drift", "")>>)
        ELSE Verdict("research", IsoViolations(audit_result))

\* ResearchPolicy.evaluate
ResearchPolicy_evaluate(audit_result) ==
    LET score == Get(audit_result, "overall_score", 0)
        dim_scores == Get(audit_result, "dimension_scores", <<>>)
        comp_score == Get(dim_scores, "completeness", 0)
        drifted == DriftedCount(Get(audit_result, "drift_results", <<>>))
        violations ==
            (IF score < Research_MIN_DATASCORE THEN <<Violation("datascore", "")>> ELSE <<>>)
            \o (IF comp_score < Research_MIN_COMPLETENESS
                THEN <<Violation("completeness", "")>> ELSE <<>>)
            \o (IF drifted > Research_MAX_DRIFTED_COLUMNS
                THEN <<Violation("drift", "")>> ELSE <<>>)
            \o IsoViolations(audit_result)
    IN  Verdict("research", violations)

Production_MIN_DATASCORE == 95 * 100

Production_MIN_COMPLETENESS == 980

Production_MAX_DRIFTED_COLUMNS == 0

\* ProductionPolicy.evaluate
ProductionPolicy_evaluate(audit_result) ==
    LET score == Get(audit_result, "overall_score", 0)
        dim_scores == Get(audit_result, "dimension_scores", <<>>)
        comp_score == Get(dim_scores, "completeness", 0)
        drifted == DriftedCount(Get(audit_result, "drift_results", <<>>))
        violations ==
            (IF score < Production_MIN_DATASCORE THEN <<Violation("datascore", "")>> ELSE <<>>)
            \o (IF comp_score < Production_MIN_COMPLETENESS
                THEN <<Violation("completeness", "")>> ELSE <<>>)
            \o (IF drifted > Production_MAX_DRIFTED_COLUMNS
                THEN <<Violation("drift", "")>> ELSE <<>>)
    IN  Verdict("production", violations)

(***************************************************************************)
(* policies/file_policy.py: FilePolicy.evaluate                            *)
(*                                                                         *)
(* policy_config is [dims, pii]: dims is the sequence of the items of the  *)
(* policy block other than 'pii', in file order, and pii is <<>> when the  *)
(* block has no 'pii' key, else <<the pii dict>>.                          *)
(***************************************************************************)
\* lines 72-80: the loop over policy_config.items()
RECURSIVE DimensionViolations(_, _, _)
DimensionViolations(dims, dimension_scores, k) ==
    IF k > Len(dims) THEN <<>>
    ELSE (IF /\ dims[k].dim \in DOMAIN dimension_scores
             /\ dimension_scores[dims[k].dim] < dims[k].min_score
          THEN <<Violation("dimension", dims[k].dim)>>
          ELSE <<>>) \o DimensionViolations(dims, dimension_scores, k + 1)

\* a check that also reports a medium-risk finding whose ratio equals the maximum
RECURSIVE MediumRatioViolations_AtOrAbove(_, _, _)
MediumRatioViolations_AtOrAbove(findings, max_medium_ratio, k) ==
    IF k > Len(findings) THEN <<>>
    ELSE (IF /\ findings[k]["highest_risk"] = "medium"
             /\ Get(findings[k], "match_ratio", 0) >= max_medium_ratio
          THEN <<Violation("pii_medium", Get(findings[k], "column", "unknown"))>>
          ELSE <<>>) \o MediumRatioViolations_AtOrAbove(findings, max_medium_ratio, k + 1)

\* lines 99-106: one violation per medium-risk finding over the ratio
RECURSIVE MediumRatioViolations(_, _, _)
MediumRatioViolations(findings, max_medium_ratio, k) ==
    IF k > Len(findings) THEN <<>>
    ELSE (IF /\ findings[k]["highest_risk"] = "medium"
             /\ Get(findings[k], "match_ratio", 0) > max_medium_ratio
          THEN <<Violation("pii_medium", Get(findings[k], "column", "unknown"))>>
          ELSE <<>>) \o MediumRatioViolations(findings, max_medium_ratio, k + 1)

\* lines 82-111
PiiViolations(pii, audit_result) ==
    LET pii_summary_block == Get(audit_result, "pii_summary", <<>>)
        pii_policy == IF pii = <<>> THEN <<>> ELSE pii[1]
    IN  IF DOMAIN pii_policy = {} THEN <<>>
        ELSE (IF /\ Get(pii_policy, "block_high_risk", FALSE)
                 /\ Get(pii_summary_block, "high_risk_columns", 0) > 0
              THEN <<Violation("pii_high", "")>> ELSE <<>>)
             \o (IF "max_medium_risk_ratio" \in DOMAIN pii_policy
                 THEN MediumRatioViolations(Get(audit_result, "pii_findings", <<>>),
                                            pii_policy["max_medium_risk_ratio"], 1)
                 ELSE <<>>)
             \o (IF /\ Get(pii_policy, "allow_low_risk", TRUE) = FALSE
                    /\ Get(pii_summary_block, "low_risk_columns", 0) > 0
                 THEN <<Violation("pii_low", "")>> ELSE <<>>)

\* FilePolicy.evaluate
FilePolicy_evaluate(policy_data, audit_result) ==
    LET policy_config == policy_data.policy
        dimension_scores == Get(audit_result, "dimension_scores", <<>>)
        dim_violations == DimensionViolations(policy_config.dims, dimension_scores, 1)
        pii_violations == PiiViolations(policy_config.pii, audit_result)
        violations == dim_violations \o pii_violations
        status == IF violations = <<>> THEN "PASS" ELSE "FAIL"
    IN  [policy |-> "file", type |-> "file", version |-> policy_data.version,
         status |-> status, passed |-> (status = "PASS"), violations |-> violations,
         pii_violation |-> (pii_violations # <<>>)]

(***************************************************************************)
(* The policies constructed and the audit records they are run on          *)
(***************************************************************************)
MaxDrift == 3

MaxChars == 2

MaxFindings == 2

OverallScores == {8900, 9000, 9499, 9500, 10000}

CompletenessScores == {940, 950, 979, 980, 1000}

CharNames == <<"accuracy", "completeness", "consistency", "credibility">>

DriftEntries == {[column |-> "a", drift_detected |-> b] : b \in BOOLEAN}

Characteristics ==
    UNION {{[i \in 1..n |-> [name |-> CharNames[i], info |-> [status |-> st[i]]]] :
                st \in [1..n -> {"OK", "CRITICAL"}]} : n \in 0..MaxChars}

StandardsBlocks ==
    {PyNone} \cup {[characteristics |-> c] : c \in Characteristics}

NamedAudits ==
    {Merge(Merge(a, b), Merge(c, d)) :
        a \in Dicts({"overall_score"}, OverallScores),
        b \in Dicts({"dimension_scores"}, Dicts({"completeness"}, CompletenessScores)),
        c \in {[drift_results |-> r] : r \in SeqsUpTo(DriftEntries, MaxDrift)},
        d \in Dicts({"standards_alignment"}, StandardsBlocks)}

PolicyDims ==
    { <<>>,
      <<[dim |-> "completeness", min_score |-> 950]>>,
      <<[dim |-> "completeness", min_score |-> 950], [dim |-> "uniqueness", min_score |-> 900]>> }

PiiPolicies ==
    {<<>>} \cup
    {<<Merge(Merge(a, b), c)>> :
        a \in Dicts({"block_high_risk"}, {TRUE}),
        b \in Dicts({"max_medium_risk_ratio"}, {5000}),
        c \in Dicts({"allow_low_risk"}, BOOLEAN)}

FilePolicies ==
    {[kind |-> "file", policy_data |-> [version |-> 1, policy |-> [dims |-> d, pii |-> p]]] :
        d \in PolicyDims, p \in PiiPolicies}

FindingKinds ==
    { [column |-> "col", highest_risk |-> "medium", match_ratio |-> 8000],
      [column |-> "col", highest_risk |-> "medium", match_ratio |-> 5000],
      [column |-> "col", highest_risk |-> "high",   match_ratio |-> 8000],
      [column |-> "col", highest_risk |-> "low",    match_ratio |-> 8000] }

FileAudits ==
    {Merge(Merge(a, b), c) :
        a \in {[dimension_scores |-> Merge(x, y)] :
                  x \in Dicts({"completeness"}, {900, 950}),
                  y \in Dicts({"uniqueness"}, {950})},
        b \in {[pii_summary |-> [high_risk_columns |-> h, low_risk_columns |-> l]] :
                  h \in 0..1, l \in 0..1},
        c \in {[pii_findings |-> f] : f \in SeqsUpTo(FindingKinds, MaxFindings)}}

PolicyInit ==
    /\ \/ /\ pol_policy \in {[kind |-> "research"], [kind |-> "production"]}
          /\ pol_audit \in NamedAudits
       \/ /\ pol_policy \in FilePolicies
          /\ pol_audit \in FileAudits
    /\ pol_result = <<>>

PolicyIdle ==
    /\ pol_policy = [kind |-> "none"]
    /\ pol_audit = <<>>
    /\ pol_result = <<>>

EvaluateResearch ==
    /\ pol_policy.kind = "research"
    /\ pol_result = <<>>
    /\ pol_result' = <<ResearchPolicy_evaluate(pol_audit)>>
    /\ UNCHANGED <<pol_policy, pol_audit>>

EvaluateProduction ==
    /\ pol_policy.kind = "production"
    /\ pol_result = <<>>
    /\ pol_result' = <<ProductionPolicy_evaluate(pol_audit)>>
    /\ UNCHANGED <<pol_policy, pol_audit>>

EvaluateFile ==
    /\ pol_policy.kind = "file"
    /\ pol_result = <<>>
    /\ pol_result' = <<FilePolicy_evaluate(pol_policy.policy_data, pol_audit)>>
    /\ UNCHANGED <<pol_policy, pol_audit>>

(***************************************************************************)
(* integrity/plugins.py, integrity/rules.py, integrity/engine.py           *)
(*                                                                         *)
(* A rule class is [name, id, severity, is_rule]; is_rule is false for an  *)
(* object that is not a subclass of IntegrityRule.  A call of a rule       *)
(* function either returns a score or raises: [raises, score].  The        *)
(* weights of a configuration are integer numbers of 1/EngineWeightDen.    *)
(***************************************************************************)
RuleClass(name, id, severity) ==
    [name |-> name, id |-> id, severity |-> severity, is_rule |-> TRUE]

\* the classes rules.py decorates with @register_rule, in the order of the module
BuiltinRules ==
    << RuleClass("CompletenessRule", "completeness", "HIGH"),
       RuleClass("UniquenessRule",   "uniqueness",   "MEDIUM"),
       RuleClass("ValidityRule",     "validity",     "MEDIUM"),
       RuleClass("ConsistencyRule",  "consistency",  "HIGH"),
       RuleClass("TimelinessRule",   "timeliness",   "LOW") >>

\* a registration that replaces the class registered under the id
register_rule_Overwriting(registry, rule_class) ==
    IF ~ rule_class.is_rule THEN [error |-> "TypeError", registry |-> registry]
    ELSE IF rule_class.id = "" THEN [error |-> "ValueError", registry |-> registry]
    ELSE [error |-> "",
          registry |-> [k \in DOMAIN registry \cup {rule_class.id} |->
                           IF k = rule_class.id THEN rule_class ELSE registry[k]]]

\* register_rule: the exception raised ("" if none) and the registry afterwards
register_rule(registry, rule_class) ==
    IF ~ rule_class.is_rule THEN [error |-> "TypeError", registry |-> registry]
    ELSE IF rule_class.id = "" THEN [error |-> "ValueError", registry |-> registry]
    ELSE IF rule_class.id \in DOMAIN registry
    THEN [error |-> "ValueError", registry |-> registry]
    ELSE [error |-> "",
          registry |-> [k \in DOMAIN registry \cup {rule_class.id} |->
                           IF k = rule_class.id THEN rule_class ELSE registry[k]]]

\* deregister_rule
deregister_rule(registry, rule_id) ==
    IF rule_id \notin DOMAIN registry THEN [error |-> "KeyError", registry |-> registry]
    ELSE [error |-> "", registry |-> [k \in DOMAIN registry \ {rule_id} |-> registry[k]]]

\* a snapshot that is the registry itself and not a copy of it
get_registered_rules_Aliased(registry) == [alias |-> TRUE, dict |-> registry]

\* get_registered_rules: dict(_PLUGIN_REGISTRY), an object of its own
get_registered_rules(registry) == [alias |-> FALSE, dict |-> registry]

\* _PLUGIN_REGISTRY once rules.py is imported: the decorators ran in module order
RECURSIVE ImportedRegistry(_)
ImportedRegistry(k) ==
    IF k = 0 THEN <<>>
    ELSE register_rule(ImportedRegistry(k - 1), BuiltinRules[k]).registry

\* rules.RULE_REGISTRY: the keys of the literal dict, in its order
RULE_REGISTRY == <<"completeness", "uniqueness", "validity", "consistency", "timeliness">>

\* rules.RULE_SEVERITY: built once, when rules.py is imported
RULE_SEVERITY ==
    LET registered == get_registered_rules(ImportedRegistry(Len(BuiltinRules))).dict
    IN  [rid \in DOMAIN registered |-> registered[rid].severity]

EngineWeightDen == 4 * 5

WeightItems(ws) == [i \in 1..Len(RULE_REGISTRY) |-> [dim |-> RULE_REGISTRY[i], weight |-> ws[i]]]

\* IntegrityConfig().score_weights
DEFAULT_CONFIG == [is_default |-> TRUE, score_weights |-> WeightItems(<<6, 4, 4, 4, 2>>)]

ISO_25012_DEFAULT_WEIGHTS == WeightItems(<<6, 3, 5, 3, 3>>)

ISO_25012_MAPPING ==
    << [char |-> "Completeness", dims |-> <<"completeness">>],
       [char |-> "Consistency",  dims |-> <<"consistency">>],
       [char |-> "Currentness",  dims |-> <<"timeliness">>],
       [char |-> "Accuracy",     dims |-> <<"validity">>] >>

\* _get_status_for_score
_get_status_for_score(score) ==
    IF score * 100 >= 95 * ScoreDen THEN "PASS"
    ELSE IF score * 100 >= 85 * ScoreDen THEN "MINOR_ISSUES"
    ELSE IF score * 100 >= 70 * ScoreDen THEN "MODERATE_ISSUES"
    ELSE "CRITICAL"

RECURSIVE SumSeq(_)
SumSeq(s) == IF s = <<>> THEN 0 ELSE s[1] + SumSeq(Tail(s))

\* evaluate_iso_25012_alignment: the items of the dict it returns
evaluate_iso_25012_alignment(dimension_scores) ==
    [i \in 1..Len(ISO_25012_MAPPING) |->
        LET internal_dims == ISO_25012_MAPPING[i].dims
            present == SelectSeq(internal_dims, LAMBDA d : d \in DOMAIN dimension_scores)
            scores == [j \in 1..Len(present) |-> dimension_scores[present[j]]]
            score == IF scores = <<>> THEN 0 ELSE SumSeq(scores) \div Len(scores)
        IN  [name |-> ISO_25012_MAPPING[i].char,
             info |-> [score |-> score, status |-> _get_status_for_score(score)]]]

\* IntegrityConfig.validate, the check of the weights: the exception raised, "" if none
validate(config) ==
    IF SumSeq([i \in 1..Len(config.score_weights) |-> config.score_weights[i].weight])
          # EngineWeightDen
    THEN "ValueError" ELSE ""

\* lines 97-118 of scorer.py, the loop over the first k items of the weight table
RECURSIVE ComputeLoop(_, _, _, _, _)
ComputeLoop(weights, k, den, dimension_scores, rule_severities) ==
    IF k = 0 THEN [weighted_sum |-> 0, breakdown |-> <<>>]
    ELSE LET before == ComputeLoop(weights, k - 1, den, dimension_scores, rule_severities)
             dimension == weights[k].dim
             weight == weights[k].weight
             raw_score == Get(dimension_scores, dimension, 0)
             adj == AdjustedScore(dimension, raw_score, rule_severities)
             contribution == adj.adjusted_score * weight
         IN  [weighted_sum |-> before.weighted_sum + contribution,
              breakdown |-> Append(before.breakdown,
                  [dimension |-> dimension,
                   raw_score |-> Round4(raw_score, ScoreDen),
                   adjusted_score |-> Round4(adj.adjusted_score, ScoreDen),
                   severity |-> adj.severity,
                   weight |-> weight,
                   contribution |-> Round4(contribution, ScoreDen * den)])]

\* DataScorer.compute as one call, for weights in 1/den
DataScorer_compute(weights, den, dimension_scores, rule_severities) ==
    LET done == ComputeLoop(weights, Len(weights), den, dimension_scores, rule_severities)
    IN  [data_score |-> RoundHalfEven(done.weighted_sum * 100 * 100, ScoreDen * den),
         breakdown |-> done.breakdown]

\* breakdown.get(rule_name, {}).get("contribution", 0.0)
ContributionOf(bd, rule_name) ==
    IF \E i \in 1..Len(bd) : bd[i].dimension = rule_name
    THEN bd[CHOOSE i \in 1..Len(bd) : bd[i].dimension = rule_name].contribution
    ELSE 0

\* IntegrityEngine.run with the rule loop of lines 129-144 catching what a rule
\* raises: the exception raised ("" if none), the calls of the rule functions
\* and the result returned
RunToCompletion(config, profile, outcomes) ==
    LET used == IF profile = "iso-25012" /\ config.is_default
                THEN [is_default |-> FALSE, score_weights |-> ISO_25012_DEFAULT_WEIGHTS]
                ELSE config
        dimension_scores ==
            [rule_name \in {RULE_REGISTRY[i] : i \in 1..Len(RULE_REGISTRY)} |->
                IF outcomes[rule_name].raises THEN 0 ELSE outcomes[rule_name].score]
        score_result == DataScorer_compute(used.score_weights, EngineWeightDen,
                                           dimension_scores, <<RULE_SEVERITY>>)
        alignment_data ==
            IF profile = "iso-25012"
            THEN [profile |-> "ISO/IEC 25012",
                  characteristics |-> evaluate_iso_25012_alignment(dimension_scores)]
            ELSE PyNone
        rule_results ==
            [i \in 1..Len(RULE_REGISTRY) |->
                LET rule_name == RULE_REGISTRY[i]
                    raw == Get(dimension_scores, rule_name, 0)
                IN  [rule_id |-> rule_name,
                     metric_value |-> raw,
                     threshold |-> DEFAULT_PASS_THRESHOLD,
                     passed |-> raw >= DEFAULT_PASS_THRESHOLD,
                     severity |-> Get(RULE_SEVERITY, rule_name, "LOW"),
                     weighted_contribution |->
                         ContributionOf(score_result.breakdown, rule_name)]]
    IN  [error |-> "",
         called |-> [rule_name \in {RULE_REGISTRY[i] : i \in 1..Len(RULE_REGISTRY)} |->
                        outcomes[rule_name]],
         result |-> <<[rules_executed |-> RULE_REGISTRY,
                       rule_results |-> rule_results,
                       drift_results |-> <<>>,
                       pii_summary |-> <<>>,
                       overall_score |-> score_result.data_score,
                       breakdown |-> score_result.breakdown,
                       dimension_scores |-> dimension_scores,
                       standards_alignment |-> alignment_data]>>]

\* a run in which a rule that raises aborts the audit
IntegrityEngine_run_Propagating(config, profile, outcomes) ==
    IF \E i \in 1..Len(RULE_REGISTRY) : outcomes[RULE_REGISTRY[i]].raises
    THEN [error |-> "Exception", called |-> outcomes, result |-> <<>>]
    ELSE RunToCompletion(config, profile, outcomes)

IntegrityEngine_run(config, profile, outcomes) == RunToCompletion(config, profile, outcomes)

\* DatasetAuditResult.to_legacy_dict, the keys the audit decides
to_legacy_dict(audit_result) ==
    [data_score |-> audit_result.overall_score,
     breakdown |-> audit_result.breakdown,
     dimension_scores |-> audit_result.dimension_scores,
     rules_run |-> audit_result.rules_executed,
     pii_summary |-> audit_result.pii_summary]

(***************************************************************************)
(* The calls made on the registry and the engine                           *)
(***************************************************************************)
MaxOps == 2

ThirdPartyRules ==
    { RuleClass("MyCustomRule", "my_rule", "HIGH"),
      RuleClass("OtherRule", "my_rule", "LOW"),
      RuleClass("LenientCompleteness", "completeness", "LOW"),
      RuleClass("Unnamed", "", "MEDIUM"),
      [name |-> "NotARule", id |-> "not_a_rule", severity |-> "LOW", is_rule |-> FALSE] }

DeregisterIds == {"my_rule", "completeness"}

\* the rule functions that raise on some datasets
FaultyRules == {"completeness", "validity", "timeliness"}

\* what a call of a rule function does
Outcome(raises, score) == [raises |-> raises, score |-> IF raises THEN 0 ELSE score]

\* one outcome per rule function: some of the faulty ones raise, the others
\* return the score the dataset earns
RuleOutcomes ==
    { [rule_name \in {RULE_REGISTRY[i] : i \in 1..Len(RULE_REGISTRY)} |->
          Outcome(rule_name \in raising, score)] :
      raising \in SUBSET FaultyRules, score \in {RawStep, One} }

\* the configurations run() is given: the default one, and custom ones whose
\* weights sum to 0.75 and to 1.5
EngineConfigs ==
    { DEFAULT_CONFIG,
      [is_default |-> FALSE,
       score_weights |-> <<[dim |-> "completeness", weight |-> 10],
                           [dim |-> "uniqueness", weight |-> 5]>>],
      [is_default |-> FALSE,
       score_weights |-> <<[dim |-> "completeness", weight |-> 20],
                           [dim |-> "validity", weight |-> 10]>>] }

Profiles == {"", "iso-25012"}

EngineInit ==
    /\ _PLUGIN_REGISTRY = ImportedRegistry(Len(BuiltinRules))
    /\ eng_log = <<>>
    /\ eng_error = ""
    /\ eng_snapshot = <<>>
    /\ eng_result = <<>>
    /\ eng_called = <<>>
    /\ dataset_profile = <<>>

\* the package is not in use
EngineIdle ==
    /\ _PLUGIN_REGISTRY = <<>>
    /\ eng_log = <<>>
    /\ eng_error = ""
    /\ eng_snapshot = <<>>
    /\ eng_result = <<>>
    /\ eng_called = <<>>
    /\ dataset_profile = <<>>

\* a mutation of the registry reaches the snapshot only if the two are one object
SnapshotAfter(registry) ==
    IF eng_snapshot # <<>> /\ eng_snapshot[1].alias
    THEN <<[alias |-> TRUE, dict |-> registry]>>
    ELSE eng_snapshot

RegisterRule(rule_class) ==
    /\ LET r == register_rule(_PLUGIN_REGISTRY, rule_class)
       IN  /\ r.error = "" => Len(eng_log) < MaxOps
           /\ _PLUGIN_REGISTRY' = r.registry
           /\ eng_error' = r.error
           /\ eng_log' = IF r.error = ""
                         THEN Append(eng_log, [op |-> "register", id |-> rule_class.id,
                                               class |-> rule_class])
                         ELSE eng_log
           /\ eng_snapshot' = SnapshotAfter(r.registry)
    /\ UNCHANGED <<eng_result, eng_called, dataset_profile>>

DeregisterRule(rule_id) ==
    /\ LET r == deregister_rule(_PLUGIN_REGISTRY, rule_id)
       IN  /\ r.error = "" => Len(eng_log) < MaxOps
           /\ _PLUGIN_REGISTRY' = r.registry
           /\ eng_error' = r.error
           /\ eng_log' = IF r.error = ""
                         THEN Append(eng_log, [op |-> "deregister", id |-> rule_id,
                                               class |-> RuleClass("", rule_id, "")])
                         ELSE eng_log
           /\ eng_snapshot' = SnapshotAfter(r.registry)
    /\ UNCHANGED <<eng_result, eng_called, dataset_profile>>

\* the caller asks once and keeps the dict
GetRegisteredRules ==
    /\ eng_snapshot = <<>>
    /\ eng_snapshot' = <<get_registered_rules(_PLUGIN_REGISTRY)>>
    /\ eng_error' = ""
    /\ UNCHANGED <<_PLUGIN_REGISTRY, eng_log, eng_result, eng_called, dataset_profile>>

\* the caller deletes a key of the dict get_registered_rules gave it
MutateSnapshot(rule_id) ==
    /\ eng_snapshot # <<>>
    /\ rule_id \in DOMAIN eng_snapshot[1].dict
    /\ LET d == [k \in DOMAIN eng_snapshot[1].dict \ {rule_id} |-> eng_snapshot[1].dict[k]]
       IN  /\ eng_snapshot' = <<[alias |-> eng_snapshot[1].alias, dict |-> d]>>
           /\ _PLUGIN_REGISTRY' = IF eng_snapshot[1].alias THEN d ELSE _PLUGIN_REGISTRY
    /\ eng_error' = ""
    /\ UNCHANGED <<eng_log, eng_result, eng_called, dataset_profile>>

Run(config, profile, outcomes) ==
    /\ eng_result = <<>>
    /\ eng_called = <<>>
    /\ LET r == IntegrityEngine_run(config, profile, outcomes)
       IN  /\ eng_error' = r.error
           /\ eng_called' = r.called
           /\ eng_result' = r.result
           /\ dataset_profile' =
                IF r.result = <<>> THEN dataset_profile
                ELSE to_legacy_dict(r.result[1])
    /\ UNCHANGED <<_PLUGIN_REGISTRY, eng_log, eng_snapshot>>

EngineNext ==
    \/ \E rule_class \in ThirdPartyRules : RegisterRule(rule_class)
    \/ \E rule_id \in DeregisterIds : DeregisterRule(rule_id)
    \/ GetRegisteredRules
    \/ \E rule_id \in DeregisterIds : MutateSnapshot(rule_id)
    \/ \E config \in EngineConfigs, profile \in Profiles, outcomes \in RuleOutcomes :
          Run(config, profile, outcomes)

(***************************************************************************)
(* ingestion/pii.py: PIIDetector.scan(dataset, sample_threshold)           *)
(*                                                                         *)
(* A DataFrame is the sequence of its columns, all of one length; a dict   *)
(* is the sequence of its items <<[key, value]>> in insertion order.       *)
(***************************************************************************)
\* d[key] = value
DictSet(items, key, value) ==
    IF \E k \in 1..Len(items) : items[k].key = key
    THEN [k \in 1..Len(items) |->
            IF items[k].key = key THEN [key |-> key, value |-> value] ELSE items[k]]
    ELSE Append(items, [key |-> key, value |-> value])

\* len(df)
RowCount(df) == IF df = <<>> THEN 0 ELSE Len(df[1].cells)

\* a sample of the last n rows
iloc_Tail(df, n) ==
    [c \in 1..Len(df) |->
        [df[c] EXCEPT !.cells = SubSeq(df[c].cells,
                                      IF Len(df[c].cells) < n THEN 1 ELSE Len(df[c].cells) - n + 1,
                                      Len(df[c].cells))]]

\* df.iloc[:n] for n >= 0
iloc(df, n) == [c \in 1..Len(df) |-> [df[c] EXCEPT !.cells = HeadN(df[c].cells, n)]]

IsoDateRegex == Cat(<<Rep(D, 4, 4), Cls({"-"}), Rep(D, 2, 2), Cls({"-"}), Rep(D, 2, 2)>>)

IsoSampleRows == 20

\* lines 100-109: the columns scan() does not look into
SkipsColumn(series) ==
    \/ series.dtype = "bool"
    \/ series.dtype = "datetime64"
    \/ LET sample_head == HeadN(string_values(series), IsoSampleRows)
           iso_date_hits == Cardinality({k \in 1..Len(sample_head) :
                                            MatchAtStart(IsoDateRegex, sample_head[k].val)})
       IN  sample_head # <<>> /\ 10 * iso_date_hits >= 8 * Len(sample_head)

\* lines 163-170: sample_numeric % 1 is not defined for complex numbers, and
\* _scan_column raises TypeError on a complex column with a non-null value
ScanColumnRaises(series) ==
    string_values(series) # <<>> /\ series.dtype = "complex128"

risk_map(risk) ==
    IF risk = "high" THEN 3 ELSE IF risk = "medium" THEN 2 ELSE IF risk = "low" THEN 1 ELSE 0

\* lines 119-125: the highest risk among the findings of a column
RECURSIVE HighestRisk(_, _, _)
HighestRisk(findings, k, highest_risk) ==
    IF k > Len(findings) THEN highest_risk
    ELSE HighestRisk(findings, k + 1,
                     IF risk_map(findings[k].highest_risk) > risk_map(highest_risk)
                     THEN findings[k].highest_risk ELSE highest_risk)

\* lines 93-95: the locals of scan() before the loop
ScanStart ==
    [error |-> "", column_reports |-> <<>>, total_matches |-> 0,
     risk_counts |-> [high |-> 0, medium |-> 0, low |-> 0]]

\* lines 114-126: a column whose report says pii_detected goes into the summary
Aggregate(before, col, col_report) ==
    IF ~ col_report.pii_detected THEN before
    ELSE [error |-> "",
          column_reports |-> DictSet(before.column_reports, col, col_report),
          total_matches |-> before.total_matches + col_report.count,
          risk_counts |->
              IF col_report.pii_findings = <<>> THEN before.risk_counts
              ELSE [before.risk_counts EXCEPT
                       ![HighestRisk(col_report.pii_findings, 1, "low")] = @ + 1]]

\* lines 97-126: one turn of the loop, for the column series
ColumnTurn(before, series, scan_total) ==
    IF before.error # "" THEN before
    ELSE IF SkipsColumn(series) THEN before
    ELSE IF ScanColumnRaises(series) THEN [before EXCEPT !.error = "TypeError"]
    ELSE CHOOSE after \in
            {Aggregate(before, series.name, col_report) :
                col_report \in {_scan_column(series.name, series, scan_total).report}} : TRUE

\* lines 97-126: the loop over the first k columns of scan_df
RECURSIVE ScanLoop(_, _, _)
ScanLoop(scan_df, k, scan_total) ==
    IF k = 0 THEN ScanStart
    ELSE CHOOSE after \in
            {ColumnTurn(before, scan_df[k], scan_total) :
                before \in {ScanLoop(scan_df, k - 1, scan_total)}} : TRUE

PiiSummaryKey == <<"p","i","i","_","s","u","m","m","a","r","y">>

\* lines 128-142: the summary block, stored in the dict of the column reports
ScanReturn(done, is_sampled, sample_size) ==
    IF done.error # "" THEN [error |-> done.error, result |-> <<>>]
    ELSE [error |-> "",
          result |-> DictSet(done.column_reports, PiiSummaryKey,
              [high_risk_columns |-> done.risk_counts.high,
               medium_risk_columns |-> done.risk_counts.medium,
               low_risk_columns |-> done.risk_counts.low,
               total_columns_with_pii |-> Len(done.column_reports),
               total_matches |-> done.total_matches,
               is_sampled |-> is_sampled,
               sample_size |-> sample_size])]

\* DatasetAuditResult.to_dict, lines 127-132: the findings of every item of
\* the scan result but the one stored under 'pii_summary'
RECURSIVE flat_findings(_)
flat_findings(items) ==
    IF items = <<>> THEN <<>>
    ELSE (IF items[1].key # PiiSummaryKey /\ "pii_findings" \in DOMAIN items[1].value
          THEN items[1].value.pii_findings
          ELSE <<>>) \o flat_findings(Tail(items))

\* PIIDetector.scan: the exception raised ("" if none) and the dict returned
scan(df, sample_threshold) ==
    LET total_rows == RowCount(df)
        is_sampled == total_rows > sample_threshold
        scan_total == IF is_sampled THEN sample_threshold ELSE total_rows
    IN  CHOOSE returned \in
            {ScanReturn(done, is_sampled, scan_total) :
                done \in {ScanLoop(IF is_sampled THEN iloc(df, sample_threshold) ELSE df,
                                   Len(df), scan_total)}} : TRUE

(***************************************************************************)
(* The datasets scan() is run on                                           *)
(***************************************************************************)
MaxScanRows == 3

DefaultSampleThreshold == 100000

SampleThresholds == {0, 1, 2, DefaultSampleThreshold}

ContactCells ==
    { <<"a","@","b",".","c","o">>, <<"A","A","B","B","A","A">>, NULL }

NationalIdCells ==
    { <<"X","9","K","2","M","4","Q","7">>,
      <<"0","0","0","0","0","0","0","0","0">> }

\* the second column of the frame: an identifier column, or one of a kind
\* that scan() skips or cannot scan
SecondColumns(n) ==
    {[name |-> <<"N","a","t","i","o","n","a","l","_","I","D">>, dtype |-> "object", cells |-> c] :
        c \in [1..n -> NationalIdCells]}
    \cup {[name |-> <<"f","l","a","g">>, dtype |-> "bool",
           cells |-> [i \in 1..n |-> <<"T","r","u","e">>]],
          [name |-> <<"d","a","y">>, dtype |-> "object",
           cells |-> [i \in 1..n |-> <<"2","0","2","4","-","0","1","-","1","5">>]],
          [name |-> <<"z">>, dtype |-> "complex128",
           cells |-> [i \in 1..n |-> <<"(","1","+","2","j",")">>]],
          [name |-> <<"q","t","y">>, dtype |-> "int64",
           cells |-> [i \in 1..n |-> <<"5","5","5","1","2","3","4","5","6","7">>]],
          [name |-> <<"q","t","y">>, dtype |-> "object",
           cells |-> [i \in 1..n |-> IF i = n THEN <<"n","/","a">>
                                      ELSE <<"5","5","5","1","2","3","4","5","6","7">>]],
          [name |-> PiiSummaryKey, dtype |-> "object",
           cells |-> [i \in 1..n |-> <<"a","@","b",".","c","o">>]]}

Frames ==
    UNION {{<<[name |-> <<"m","i","x","e","d","_","c","o","l">>, dtype |-> "object", cells |-> c], second>> :
              c \in [1..n -> ContactCells], second \in SecondColumns(n)} : n \in 0..MaxScanRows}

ScanInit ==
    /\ scan_pc = "ready"
    /\ dataset_df \in Frames
    /\ scan_threshold \in SampleThresholds
    /\ scan_out = <<>>

\* no dataset is being scanned
ScanIdle ==
    /\ scan_pc = "idle"
    /\ dataset_df = <<>>
    /\ scan_threshold = 0
    /\ scan_out = <<>>

Scan ==
    /\ scan_pc = "ready"
    /\ scan_out' = <<scan(dataset_df, scan_threshold)>>
    /\ scan_pc' = "done"
    /\ UNCHANGED <<dataset_df, scan_threshold>>

(***************************************************************************)
(* policies/file_policy.py: FilePolicy.__init__ and _load_policy           *)
(*                                                                         *)
(* A policy file is described by what the loader and evaluate look at:     *)
(* whether it exists, what yaml.safe_load makes of it ("error" when it     *)
(* raises, else the kind of the document), the kind of the value under     *)
(* "version" and the value under "policy": its kind, its dimension items   *)
(* <<[dim, kind, min_score]>> and the value under "pii".                   *)
(***************************************************************************)
PolicyFile(exists, yaml, version, policy) ==
    [exists |-> exists, yaml |-> yaml, version |-> version, policy |-> policy]

PolicySection(kind, dims, pii) == [kind |-> kind, dims |-> dims, pii |-> pii]

NoSection == PolicySection("absent", <<>>, [kind |-> "absent", dict |-> <<>>])

\* FilePolicy._load_policy: the exception raised ("" if none) and the data returned
_load_policy(file) ==
    IF ~ file.exists THEN [error |-> "FileNotFoundError", policy_data |-> <<>>]
    ELSE IF file.yaml = "error" THEN [error |-> "ValueError", policy_data |-> <<>>]
    ELSE IF file.yaml # "dict" THEN [error |-> "ValueError", policy_data |-> <<>>]
    ELSE IF file.version = "absent" THEN [error |-> "ValueError", policy_data |-> <<>>]
    ELSE IF file.policy.kind # "dict" THEN [error |-> "ValueError", policy_data |-> <<>>]
    ELSE [error |-> "", policy_data |-> <<file>>]

\* FilePolicy.evaluate on loaded data: line 77 compares a score with min_score,
\* which raises TypeError when min_score is a string and the audit has the
\* dimension; line 84 goes into the pii block only if it is a non-empty dict
FilePolicy_evaluate_loaded(data, audit_result) ==
    LET dimension_scores == Get(audit_result, "dimension_scores", <<>>)
        numeric == SelectSeq(data.policy.dims, LAMBDA item : item.kind = "number")
        pii == IF data.policy.pii.kind = "dict" THEN <<data.policy.pii.dict>> ELSE <<>>
    IN  IF \E k \in 1..Len(data.policy.dims) :
              /\ data.policy.dims[k].kind # "number"
              /\ data.policy.dims[k].dim \in DOMAIN dimension_scores
        THEN [error |-> "TypeError", result |-> <<>>]
        ELSE [error |-> "",
              result |-> <<FilePolicy_evaluate(
                              [version |-> data.version,
                               policy |-> [dims |-> [k \in 1..Len(numeric) |->
                                                       [dim |-> numeric[k].dim,
                                                        min_score |-> numeric[k].min_score]],
                                           pii |-> pii]],
                              audit_result)>>]

(***************************************************************************)
(* The policy files loaded                                                 *)
(***************************************************************************)
FileDims ==
    { <<>>,
      <<[dim |-> "completeness", kind |-> "number", min_score |-> 950]>>,
      <<[dim |-> "completeness", kind |-> "str", min_score |-> 0]>> }

FilePiiBlocks ==
    { [kind |-> "absent", dict |-> <<>>],
      [kind |-> "dict", dict |-> [block_high_risk |-> TRUE]],
      [kind |-> "str", dict |-> <<>>] }

PolicyFiles ==
    { PolicyFile(FALSE, "error", "absent", NoSection),
      PolicyFile(TRUE, "error", "absent", NoSection),
      PolicyFile(TRUE, "none", "absent", NoSection),
      PolicyFile(TRUE, "list", "absent", NoSection),
      PolicyFile(TRUE, "dict", "absent", PolicySection("dict", <<>>, NoSection.pii)),
      PolicyFile(TRUE, "dict", "int", NoSection),
      PolicyFile(TRUE, "dict", "int", PolicySection("list", <<>>, NoSection.pii)) }
    \cup { PolicyFile(TRUE, "dict", version, PolicySection("dict", dims, pii)) :
              version \in {"int", "str"}, dims \in FileDims, pii \in FilePiiBlocks }

LoadInit ==
    /\ pf_pc = "ready"
    /\ pf_file \in PolicyFiles
    /\ pf_error = ""
    /\ pf_data = <<>>
    /\ pf_audit = <<>>
    /\ pf_result = <<>>

\* no policy file is in use
LoadIdle ==
    /\ pf_pc = "idle"
    /\ pf_file = PolicyFile(FALSE, "error", "absent", NoSection)
    /\ pf_error = ""
    /\ pf_data = <<>>
    /\ pf_audit = <<>>
    /\ pf_result = <<>>

\* FilePolicy(policy_path)
LoadPolicy ==
    /\ pf_pc = "ready"
    /\ LET r == _load_policy(pf_file)
       IN  /\ pf_error' = r.error
           /\ pf_data' = r.policy_data
           /\ pf_pc' = IF r.error = "" THEN "loaded" ELSE "failed"
    /\ UNCHANGED <<pf_file, pf_audit, pf_result>>

\* policy.evaluate(audit_result) on the policy constructed
EvaluateLoaded(audit_result) ==
    /\ pf_pc = "loaded"
    /\ LET r == FilePolicy_evaluate_loaded(pf_data[1], audit_result)
       IN  /\ pf_error' = r.error
           /\ pf_result' = r.result
    /\ pf_audit' = audit_result
    /\ pf_pc' = "evaluated"
    /\ UNCHANGED <<pf_file, pf_data>>

(***************************************************************************)
(* core/store.py: LocalVersionStore.save called by two processes           *)
(*                                                                         *)
(* The store directory holds files (inodes) under two names: the store     *)
(* file of the source and its ".tmp" sibling, which every save of that     *)
(* source uses.  A file's text is [ok, len, versions]: whether json.loads  *)
(* reads it as a payload, its length counted in version entries (the       *)
(* entries of one source are taken to serialise to one length) and the     *)
(* versions read.  No lock is taken anywhere in save.                      *)
(***************************************************************************)
\* the two concurrent invocations; invocation p saves the version with id p
SaveCalls == {1, 2}

\* an opened-for-writing file before anything is written
EmptyText == [ok |-> FALSE, len |-> 0, versions |-> <<>>]

\* json.dumps(payload, indent=2, default=str)
PayloadText(versions) == [ok |-> TRUE, len |-> Len(versions) + 1, versions |-> versions]

\* a write at offset 0 through a descriptor opened before the file got its
\* present text: the old text beyond the new one stays
WriteAtStart(old, text) ==
    IF text.len >= old.len THEN text
    ELSE [ok |-> FALSE, len |-> old.len, versions |-> <<>>]

\* lines 192-224: a missing or unreadable file reads as the empty payload
_load_raw(inodes, path) ==
    IF path = 0 THEN <<>>
    ELSE IF inodes[path].ok THEN inodes[path].versions
    ELSE <<>>

\* the store file before the two calls: missing, or holding an earlier version
StoreInit ==
    /\ \/ vs_inodes = <<>> /\ vs_store = 0
       \/ vs_inodes = <<PayloadText(<<>>)>> /\ vs_store = 1
       \/ vs_inodes = <<PayloadText(<<0>>)>> /\ vs_store = 1
    /\ vs_tmp = 0
    /\ vs_pc = [p \in SaveCalls |-> "start"]
    /\ vs_payload = [p \in SaveCalls |-> <<>>]
    /\ vs_fd = [p \in SaveCalls |-> 0]
    /\ vs_error = [p \in SaveCalls |-> ""]

\* no store in use
StoreIdle ==
    /\ vs_inodes = <<>>
    /\ vs_store = 0
    /\ vs_tmp = 0
    /\ vs_pc = <<>>
    /\ vs_payload = <<>>
    /\ vs_fd = <<>>
    /\ vs_error = <<>>

\* lines 101-106: read the payload and append the version unless it is stored
SaveLoad(p) ==
    /\ vs_pc[p] = "start"
    /\ LET versions == _load_raw(vs_inodes, vs_store)
       IN  IF \E k \in 1..Len(versions) : versions[k] = p
           THEN /\ vs_pc' = [vs_pc EXCEPT ![p] = "done"]
                /\ vs_payload' = [vs_payload EXCEPT ![p] = versions]
           ELSE /\ vs_pc' = [vs_pc EXCEPT ![p] = "open"]
                /\ vs_payload' = [vs_payload EXCEPT ![p] = Append(versions, p)]
    /\ UNCHANGED <<vs_inodes, vs_store, vs_tmp, vs_fd, vs_error>>

\* lines 238-240: write_text opens tmp_path for writing, which creates the
\* file or empties the one that is there
SaveOpenTmp(p) ==
    /\ vs_pc[p] = "open"
    /\ IF vs_tmp = 0
       THEN /\ vs_inodes' = Append(vs_inodes, EmptyText)
            /\ vs_tmp' = Len(vs_inodes) + 1
       ELSE /\ vs_inodes' = [vs_inodes EXCEPT ![vs_tmp] = EmptyText]
            /\ vs_tmp' = vs_tmp
    /\ vs_fd' = [vs_fd EXCEPT ![p] = vs_tmp']
    /\ vs_pc' = [vs_pc EXCEPT ![p] = "write"]
    /\ UNCHANGED <<vs_store, vs_payload, vs_error>>

\* lines 240-243: write_text writes the text into the file it opened and closes it
SaveWriteTmp(p) ==
    /\ vs_pc[p] = "write"
    /\ vs_inodes' = [vs_inodes EXCEPT ![vs_fd[p]] = WriteAtStart(@, PayloadText(vs_payload[p]))]
    /\ vs_pc' = [vs_pc EXCEPT ![p] = "replace"]
    /\ UNCHANGED <<vs_store, vs_tmp, vs_payload, vs_fd, vs_error>>

\* line 244: os.replace(tmp_path, path), FileNotFoundError if tmp_path is gone
SaveReplace(p) ==
    /\ vs_pc[p] = "replace"
    /\ IF vs_tmp = 0
       THEN /\ vs_error' = [vs_error EXCEPT ![p] = "FileNotFoundError"]
            /\ UNCHANGED <<vs_store, vs_tmp>>
       ELSE /\ vs_store' = vs_tmp
            /\ vs_tmp' = 0
            /\ UNCHANGED vs_error
    /\ vs_pc' = [vs_pc EXCEPT ![p] = "finally"]
    /\ UNCHANGED <<vs_inodes, vs_payload, vs_fd>>

\* lines 245-247: the finally clause removes whatever is at tmp_path, and save
\* returns or passes the exception on
SaveFinally(p) ==
    /\ vs_pc[p] = "finally"
    /\ vs_tmp' = 0
    /\ vs_pc' = [vs_pc EXCEPT ![p] = "done"]
    /\ UNCHANGED <<vs_inodes, vs_store, vs_payload, vs_fd, vs_error>>

StoreNext ==
    \E p \in SaveCalls :
        \/ SaveLoad(p)
        \/ SaveOpenTmp(p)
        \/ SaveWriteTmp(p)
        \/ SaveReplace(p)
        \/ SaveFinally(p)

(***************************************************************************)
(* integrity/history.py: IntegrityHistoryTracker                           *)
(*                                                                         *)
(* The storage directory maps a fingerprint to the file                    *)
(* <fingerprint>.json, described by what json.load makes of it: "missing", *)
(* "invalid" (not JSON), "dict" (JSON, but no array) or "list" with the    *)
(* array's items.  A float is [type |-> "float", hundredths].              *)
(***************************************************************************)
HistoryFile(doc, items) == [doc |-> doc, items |-> items]

\* lines 77-88: the entries of the file, [] on any error and for a document
\* that is not a list
_read_file(file) == IF file.doc = "list" THEN file.items ELSE <<>>

\* lines 90-95: the file after path.write_text(json.dumps(entries, ...))
_write_file(entries) == HistoryFile("list", entries)

\* lines 107-115, the keys the history is read by
_summary_from_result(result) ==
    [run_id |-> result.run_id,
     dataset_fingerprint |-> result.dataset_fingerprint,
     overall_score |-> result.overall_score]

\* a record() that writes the new summary alone
record_Overwriting(files, result) ==
    [files EXCEPT ![result.dataset_fingerprint] =
        _write_file(<<_summary_from_result(result)>>)]

\* lines 132-138: the storage directory after record(result)
record(files, result) ==
    [files EXCEPT ![result.dataset_fingerprint] =
        _write_file(Append(_read_file(@), _summary_from_result(result)))]

load_history(files, fingerprint) == _read_file(files[fingerprint])

\* lines 170-174
get_score_trend(files, fingerprint) ==
    LET numeric == SelectSeq(load_history(files, fingerprint),
                             LAMBDA entry : entry.overall_score.type \in {"int", "float"})
    IN  [k \in 1..Len(numeric) |-> numeric[k].overall_score]

(***************************************************************************)
(* The calls made on a tracker                                             *)
(***************************************************************************)
MaxRecords == 3

Fingerprints == {"fp_a", "fp_b"}

HistoryScores == {[type |-> "float", hundredths |-> 8730],
                  [type |-> "float", hundredths |-> 9100]}

\* what the storage directory holds when the tracker is constructed
ForeignFiles == {HistoryFile("missing", <<>>), HistoryFile("invalid", <<>>),
                 HistoryFile("dict", <<>>)}

HistoryInit ==
    /\ hist_files \in [Fingerprints -> ForeignFiles]
    /\ hist_calls = <<>>
    /\ hist_out = <<>>

\* no tracker in use
HistoryIdle ==
    /\ hist_files = <<>>
    /\ hist_calls = <<>>
    /\ hist_out = <<>>

\* tracker.record(result) for the result of a new audit run
Record(fingerprint, overall_score) ==
    /\ Len(hist_calls) < MaxRecords
    /\ LET result == [run_id |-> Len(hist_calls) + 1,
                      dataset_fingerprint |-> fingerprint,
                      overall_score |-> overall_score]
       IN  /\ hist_files' = record(hist_files, result)
           /\ hist_calls' = Append(hist_calls, result)
    /\ UNCHANGED hist_out

LoadHistory(fingerprint) ==
    /\ hist_out' = <<[call |-> "load_history", fingerprint |-> fingerprint,
                      returned |-> load_history(hist_files, fingerprint)]>>
    /\ UNCHANGED <<hist_files, hist_calls>>

GetScoreTrend(fingerprint) ==
    /\ hist_out' = <<[call |-> "get_score_trend", fingerprint |-> fingerprint,
                      returned |-> get_score_trend(hist_files, fingerprint)]>>
    /\ UNCHANGED <<hist_files, hist_calls>>

(***************************************************************************)
(* Specifications: one per component, the other components idle            *)
(***************************************************************************)
PiiSpecNext == ScanColumn /\ UNCHANGED <<rw_vars, sc_vars, pol_vars, eng_vars, scan_vars, load_vars, store_vars, hist_vars>>

PiiSpecInit == PiiInit /\ RiskIdle /\ ScoreIdle /\ PolicyIdle /\ EngineIdle /\ ScanIdle /\ LoadIdle /\ StoreIdle /\ HistoryIdle

PiiSpec == PiiSpecInit /\ [][PiiSpecNext]_vars

RiskSpecNext == RiskNext /\ UNCHANGED <<pii_vars, sc_vars, pol_vars, eng_vars, scan_vars, load_vars, store_vars, hist_vars>>

RiskSpecInit == PiiIdle /\ RiskInit /\ ScoreIdle /\ PolicyIdle /\ EngineIdle /\ ScanIdle /\ LoadIdle /\ StoreIdle /\ HistoryIdle

RiskSpec == RiskSpecInit /\ [][RiskSpecNext]_vars

ScoreSpecNext ==
    \/ ComputeStep /\ UNCHANGED <<pii_vars, rw_vars, pol_vars, eng_vars, scan_vars, load_vars, store_vars, hist_vars>>
    \/ ComputeReturn /\ UNCHANGED <<pii_vars, rw_vars, pol_vars, eng_vars, scan_vars, load_vars, store_vars, hist_vars>>

ScoreSpecInit == PiiIdle /\ RiskIdle /\ ScoreInit /\ PolicyIdle /\ EngineIdle /\ ScanIdle /\ LoadIdle /\ StoreIdle /\ HistoryIdle

ScoreSpec == ScoreSpecInit /\ [][ScoreSpecNext]_vars

PolicySpecNext ==
    \/ EvaluateResearch /\ UNCHANGED <<pii_vars, rw_vars, sc_vars, eng_vars, scan_vars, load_vars, store_vars, hist_vars>>
    \/ EvaluateProduction /\ UNCHANGED <<pii_vars, rw_vars, sc_vars, eng_vars, scan_vars, load_vars, store_vars, hist_vars>>
    \/ EvaluateFile /\ UNCHANGED <<pii_vars, rw_vars, sc_vars, eng_vars, scan_vars, load_vars, store_vars, hist_vars>>

PolicySpecInit == PiiIdle /\ RiskIdle /\ ScoreIdle /\ PolicyInit /\ EngineIdle /\ ScanIdle /\ LoadIdle /\ StoreIdle /\ HistoryIdle

PolicySpec == PolicySpecInit /\ [][PolicySpecNext]_vars

EngineSpecNext ==
    \/ (\E rule_class \in ThirdPartyRules : RegisterRule(rule_class))
          /\ UNCHANGED <<pii_vars, rw_vars, sc_vars, pol_vars, scan_vars, load_vars, store_vars, hist_vars>>
    \/ (\E rule_id \in DeregisterIds : DeregisterRule(rule_id))
          /\ UNCHANGED <<pii_vars, rw_vars, sc_vars, pol_vars, scan_vars, load_vars, store_vars, hist_vars>>
    \/ GetRegisteredRules /\ UNCHANGED <<pii_vars, rw_vars, sc_vars, pol_vars, scan_vars, load_vars, store_vars, hist_vars>>
    \/ (\E rule_id \in DeregisterIds : MutateSnapshot(rule_id))
          /\ UNCHANGED <<pii_vars, rw_vars, sc_vars, pol_vars, scan_vars, load_vars, store_vars, hist_vars>>
    \/ (\E config \in EngineConfigs, profile \in Profiles, outcomes \in RuleOutcomes :
            Run(config, profile, outcomes))
          /\ UNCHANGED <<pii_vars, rw_vars, sc_vars, pol_vars, scan_vars, load_vars, store_vars, hist_vars>>

EngineSpecInit == PiiIdle /\ RiskIdle /\ ScoreIdle /\ PolicyIdle /\ EngineInit /\ ScanIdle /\ LoadIdle /\ StoreIdle /\ HistoryIdle

EngineSpec == EngineSpecInit /\ [][EngineSpecNext]_vars

ScanSpecNext == Scan /\ UNCHANGED <<pii_vars, rw_vars, sc_vars, pol_vars, eng_vars, load_vars, store_vars, hist_vars>>

ScanSpecInit == PiiIdle /\ RiskIdle /\ ScoreIdle /\ PolicyIdle /\ EngineIdle /\ ScanInit /\ LoadIdle /\ StoreIdle /\ HistoryIdle

ScanSpec == ScanSpecInit /\ [][ScanSpecNext]_vars

LoadSpecNext ==
    \/ LoadPolicy /\ UNCHANGED <<pii_vars, rw_vars, sc_vars, pol_vars, eng_vars, scan_vars, store_vars, hist_vars>>
    \/ (\E audit_result \in FileAudits : EvaluateLoaded(audit_result))
          /\ UNCHANGED <<pii_vars, rw_vars, sc_vars, pol_vars, eng_vars, scan_vars, store_vars, hist_vars>>

LoadSpecInit == PiiIdle /\ RiskIdle /\ ScoreIdle /\ PolicyIdle /\ EngineIdle /\ ScanIdle /\ LoadInit /\ StoreIdle /\ HistoryIdle

LoadSpec == LoadSpecInit /\ [][LoadSpecNext]_vars

StoreSpecNext ==
    \/ (\E p \in SaveCalls : SaveLoad(p))
          /\ UNCHANGED <<pii_vars, rw_vars, sc_vars, pol_vars, eng_vars, scan_vars, load_vars, hist_vars>>
    \/ (\E p \in SaveCalls : SaveOpenTmp(p))
          /\ UNCHANGED <<pii_vars, rw_vars, sc_vars, pol_vars, eng_vars, scan_vars, load_vars, hist_vars>>
    \/ (\E p \in SaveCalls : SaveWriteTmp(p))
          /\ UNCHANGED <<pii_vars, rw_vars, sc_vars, pol_vars, eng_vars, scan_vars, load_vars, hist_vars>>
    \/ (\E p \in SaveCalls : SaveReplace(p))
          /\ UNCHANGED <<pii_vars, rw_vars, sc_vars, pol_vars, eng_vars, scan_vars, load_vars, hist_vars>>
    \/ (\E p \in SaveCalls : SaveFinally(p))
          /\ UNCHANGED <<pii_vars, rw_vars, sc_vars, pol_vars, eng_vars, scan_vars, load_vars, hist_vars>>

StoreSpecInit == PiiIdle /\ RiskIdle /\ ScoreIdle /\ PolicyIdle /\ EngineIdle /\ ScanIdle /\ LoadIdle /\ StoreInit /\ HistoryIdle

StoreSpec == StoreSpecInit /\ [][StoreSpecNext]_vars

HistorySpecNext ==
    \/ (\E fingerprint \in Fingerprints, overall_score \in HistoryScores :
            Record(fingerprint, overall_score))
          /\ UNCHANGED <<pii_vars, rw_vars, sc_vars, pol_vars, eng_vars, scan_vars, load_vars, store_vars>>
    \/ (\E fingerprint \in Fingerprints : LoadHistory(fingerprint))
          /\ UNCHANGED <<pii_vars, rw_vars, sc_vars, pol_vars, eng_vars, scan_vars, load_vars, store_vars>>
    \/ (\E fingerprint \in Fingerprints : GetScoreTrend(fingerprint))
          /\ UNCHANGED <<pii_vars, rw_vars, sc_vars, pol_vars, eng_vars, scan_vars, load_vars, store_vars>>

HistorySpecInit == PiiIdle /\ RiskIdle /\ ScoreIdle /\ PolicyIdle /\ EngineIdle /\ ScanIdle /\ LoadIdle /\ StoreIdle /\ HistoryInit

HistorySpec == HistorySpecInit /\ [][HistorySpecNext]_vars


(***************************************************************************)
(* Properties of the PII scan (PiiSpec)                                    *)
(***************************************************************************)
\* the place of a candidate in the order of generation: the configured
\* patterns first, in configuration order, then the registry in registry order
GenerationRank(cand) ==
    IF cand.has_val
    THEN Len(pii_patterns)
         + (CHOOSE k \in 1..Len(GLOBAL_PII_REGISTRY) : GLOBAL_PII_REGISTRY[k].type = cand.type)
    ELSE CHOOSE k \in 1..Len(pii_patterns) : pii_patterns[k].name = cand.type

\* the value of row idx is a card number that passes the Luhn check and also
\* has the shape of an Aadhaar number, in a column of strings
CardAndAadhaar(idx) ==
    /\ pii_col.dtype = "object"
    /\ idx \in 1..Len(pii_col.cells)
    /\ pii_col.cells[idx] # NULL
    /\ Search(CreditCardRegex, pii_col.cells[idx])
    /\ luhn_check(pii_col.cells[idx])
    /\ Search(AadhaarRegex, pii_col.cells[idx])
    /\ ~ _is_noisy(pii_col.cells[idx])

\* C1: when several patterns match the value of one row, _scan_column counts
\* the row once, for the candidate with the lowest priority number; among
\* candidates of equal priority the one generated first wins (configured
\* patterns in configuration order, then the registry in registry order).  A
\* value that is both a Luhn-valid card number and Aadhaar-shaped is counted
\* as credit_card (priority 1), with aadhaar_india (priority 2) still among
\* the row's candidates.
C1_PriorityResolution ==
    pii_pc = "done" =>
        LET rm == pii_out.row_matches
            res == pii_out.resolved_matches
        IN  /\ Len(res) = Len(rm)
            /\ \A k \in 1..Len(rm) :
                  LET ms == rm[k].matches
                  IN  /\ ms # <<>>
                      /\ \A i, j \in 1..Len(ms) :
                            i < j => GenerationRank(ms[i]) < GenerationRank(ms[j])
                      /\ \E j \in 1..Len(ms) :
                            /\ res[k] = ms[j]
                            /\ \A i \in 1..Len(ms) : ms[j].priority <= ms[i].priority
                            /\ \A i \in 1..(j - 1) : ms[j].priority < ms[i].priority
                      /\ CardAndAadhaar(rm[k].idx) =>
                            /\ res[k].type = "credit_card"
                            /\ res[k].priority = 1
                            /\ \E i \in 1..Len(ms) :
                                  ms[i].type = "aadhaar_india" /\ ms[i].priority = 2
            /\ \A idx \in 1..Len(pii_col.cells) :
                  CardAndAadhaar(idx) => \E k \in 1..Len(rm) : rm[k].idx = idx
            /\ \A k1, k2 \in 1..Len(rm) : rm[k1].idx = rm[k2].idx => k1 = k2

\* a scan in which one row is a Luhn-valid card number that is also
\* Aadhaar-shaped, won by credit_card although candidates of priority 99 were
\* generated before it, and another row holds two candidates of the same
\* lowest priority and different types, the first of which wins
C1_Witness ==
    /\ pii_pc = "done"
    /\ \E k \in 1..Len(pii_out.row_matches) :
          /\ CardAndAadhaar(pii_out.row_matches[k].idx)
          /\ pii_out.row_matches[k].matches[1].priority = LegacyPriority
          /\ pii_out.resolved_matches[k].type = "credit_card"
    /\ \E k \in 1..Len(pii_out.row_matches) :
          LET ms == pii_out.row_matches[k].matches
          IN  \E i, j \in 1..Len(ms) :
                /\ i < j
                /\ ms[i].priority = ms[j].priority
                /\ ms[i].type # ms[j].type
                /\ ms[i].priority < LegacyPriority
                /\ pii_out.resolved_matches[k] = ms[i]


(***************************************************************************)
(* Properties of the risk weighting (RiskSpec)                             *)
(***************************************************************************)
\* twice the severity multiplier the documentation gives: 1.0 for LOW, 1.5
\* for MEDIUM, 2.0 for HIGH, the names read without regard to case, and 1.0
\* for any other string, the empty one included
DocumentedWeightDoubled(severity) ==
    CASE severity \in {"LOW", "low"} -> 2
      [] severity \in {"MEDIUM", "medium"} -> 3
      [] severity \in {"HIGH", "high"} -> 4
      [] OTHER -> 2

\* r is num / den clamped to [0, 1], for den > 0, on the scale of One
IsClampedQuotient(r, num, den) ==
    IF num <= 0 THEN r = 0
    ELSE IF num >= One * den THEN r = One
    ELSE r * den = num

\* C4: apply_risk_weight(raw, severity, passed) is clamp(raw, 0, 1) when the
\* rule passed, whatever the severity, and clamp(raw / w, 0, 1) when it
\* failed, with w = 1.0 for LOW, 1.5 for MEDIUM, 2.0 for HIGH (read without
\* regard to case) and 1.0 for an unknown or empty severity; the result is
\* never greater than clamp(raw, 0, 1).
C4_RiskWeight ==
    \A call \in rw_calls :
        /\ IF call.passed
           THEN IsClampedQuotient(call.result, rw_raw, 1)
           ELSE IsClampedQuotient(call.result, rw_raw * 2,
                                  DocumentedWeightDoubled(call.severity))
        /\ \A c \in 0..One : IsClampedQuotient(c, rw_raw, 1) => call.result <= c

\* one raw score weighted three ways: failed under HIGH and halved, passed
\* under HIGH and unchanged, failed under an unknown severity and unchanged
C4_Witness ==
    /\ rw_raw > 0
    /\ rw_raw < One
    /\ [severity |-> "HIGH", passed |-> FALSE, result |-> rw_raw \div 2] \in rw_calls
    /\ [severity |-> "HIGH", passed |-> TRUE, result |-> rw_raw] \in rw_calls
    /\ [severity |-> "CRITICAL", passed |-> FALSE, result |-> rw_raw] \in rw_calls

\* C5: for a failing score below 0.5 (zero and negative scores included) the
\* adjusted score does not grow with the severity:
\* adjusted(r, HIGH) <= adjusted(r, MEDIUM) <= adjusted(r, LOW).
C5_SeverityMonotone ==
    rw_raw < DEFAULT_PASS_THRESHOLD =>
        \A h, m, l \in rw_calls :
            ( /\ ~ h.passed /\ ~ m.passed /\ ~ l.passed
              /\ h.severity = "HIGH" /\ m.severity = "MEDIUM" /\ l.severity = "LOW" )
            => (h.result <= m.result /\ m.result <= l.result)

\* a failing score below 0.5 weighted under the three severities, with three
\* different results
C5_Witness ==
    /\ rw_raw < DEFAULT_PASS_THRESHOLD
    /\ \E h, m, l \in rw_calls :
          /\ ~ h.passed /\ ~ m.passed /\ ~ l.passed
          /\ h.severity = "HIGH" /\ m.severity = "MEDIUM" /\ l.severity = "LOW"
          /\ h.result < m.result /\ m.result < l.result


(***************************************************************************)
(* Properties of the composite score (ScoreSpec)                           *)
(***************************************************************************)
\* C2: for every weight table that is non-negative and sums to 1.0 and any
\* dimension_scores (all zero, all one, dimensions missing, values outside
\* [0, 1]), with rule_severities supplied or not, DataScorer.compute returns a
\* data_score in [0, 100].
C2_ScoreInRange ==
    sc_pc = "done" => (sc_result[1] >= 0 /\ sc_result[1] <= 100 * 100)

\* the sum of adjusted score times weight over the first k entries of the
\* weight table, reading the scores of the weighted dimensions only
RECURSIVE WeightedSumOver(_, _, _, _)
WeightedSumOver(weights, scores, severities, k) ==
    IF k = 0 THEN 0
    ELSE LET dim == weights[k].dim
             raw == IF dim \in DOMAIN scores THEN scores[dim] ELSE 0
             severity == IF dim \in DOMAIN severities THEN severities[dim] ELSE "LOW"
         IN  WeightedSumOver(weights, scores, severities, k - 1)
             + weights[k].weight
               * apply_risk_weight(raw, severity, raw >= DEFAULT_PASS_THRESHOLD)

\* the dimensions the weight table names
WeightedDims == {sc_weights[i].dim : i \in 1..Len(sc_weights)}

\* C3: with rule_severities supplied, data_score is
\* round(100 * sum of adjusted_d * w_d, 2) over the dimensions of the weight
\* table only: a weighted dimension missing from dimension_scores is read as
\* 0 and contributes 0, a scored dimension the table does not name changes
\* neither the score nor the breakdown, and the breakdown has exactly one
\* entry per weighted dimension.
C3_WeightedSum ==
    (sc_pc = "done" /\ sc_sev # <<>>) =>
        /\ sc_result[1] =
              RoundHalfEven(100 * 100 * WeightedSumOver(sc_weights,
                                [d \in DOMAIN sc_scores \cap WeightedDims |-> sc_scores[d]],
                                sc_sev[1], Len(sc_weights)),
                            ScoreDen * WeightSteps)
        /\ Len(breakdown) = Len(sc_weights)
        /\ \A i \in 1..Len(breakdown) :
              /\ breakdown[i].dimension = sc_weights[i].dim
              /\ breakdown[i].weight = sc_weights[i].weight
              /\ breakdown[i].dimension \notin DOMAIN sc_scores =>
                    (breakdown[i].raw_score = 0 /\ breakdown[i].contribution = 0)
        /\ \A i, j \in 1..Len(breakdown) :
              breakdown[i].dimension = breakdown[j].dimension => i = j

\* a score computed with severities when one weighted dimension is missing,
\* the other failed under HIGH and was halved, and a dimension outside the
\* weight table was scored too
C3_Witness ==
    /\ sc_pc = "done"
    /\ sc_sev # <<>>
    /\ "custom_rule" \in DOMAIN sc_scores
    /\ \E i, j \in 1..Len(sc_weights) :
          /\ sc_weights[i].weight > 0
          /\ sc_weights[i].dim \notin DOMAIN sc_scores
          /\ sc_weights[j].weight > 0
          /\ sc_weights[j].dim \in DOMAIN sc_scores
          /\ breakdown[j].severity = "HIGH"
          /\ breakdown[j].raw_score > 0
          /\ breakdown[j].adjusted_score * 2 = breakdown[j].raw_score
    /\ sc_result[1] > 0


(***************************************************************************)
(* Properties of the policy verdicts (PolicySpec)                          *)
(***************************************************************************)
\* the number of violations of one kind in a list of violations
CountKind(violations, kind) ==
    Cardinality({i \in 1..Len(violations) : violations[i].kind = kind})

\* C6: for the research, production and threshold-file policies alike the
\* status returned is PASS exactly when the list of violations is empty and
\* FAIL otherwise; FilePolicy's passed flag equals (status = PASS), and when
\* its pii_violation flag is true the status is FAIL.
C6_StatusIffNoViolations ==
    pol_result # <<>> =>
        /\ pol_result[1].status \in {"PASS", "FAIL"}
        /\ (pol_result[1].status = "PASS") <=> (pol_result[1].violations = <<>>)
        /\ pol_policy.kind = "file" =>
              /\ pol_result[1].passed = (pol_result[1].status = "PASS")
              /\ pol_result[1].pii_violation => pol_result[1].status = "FAIL"

\* a threshold-file verdict that fails on PII governance alone
C6_Witness ==
    /\ pol_result # <<>>
    /\ pol_policy.kind = "file"
    /\ pol_result[1].pii_violation
    /\ CountKind(pol_result[1].violations, "dimension") = 0
    /\ pol_result[1].status = "FAIL"
    /\ ~ pol_result[1].passed

\* C7: the dimension violations FilePolicy.evaluate reports are exactly one
\* per dimension of the policy block (every key but 'pii') whose audit score
\* is below its minimum or which the audit's dimension_scores does not hold,
\* each naming its dimension; a dimension at or above its minimum gives none.
C7_DimensionViolations ==
    (pol_result # <<>> /\ pol_policy.kind = "file") =>
        LET dims == pol_policy.policy_data.policy.dims
            scores == Get(pol_audit, "dimension_scores", <<>>)
            failing == {k \in 1..Len(dims) :
                           \/ dims[k].dim \notin DOMAIN scores
                           \/ scores[dims[k].dim] < dims[k].min_score}
            v == pol_result[1].violations
        IN  /\ CountKind(v, "dimension") = Cardinality(failing)
            /\ \A k \in 1..Len(dims) :
                  k \in failing <=>
                      \E i \in 1..Len(v) : v[i] = Violation("dimension", dims[k].dim)


\* the 'pii' sub-block of the policy under evaluation, <<>> when it has none
PiiBlock ==
    IF pol_policy.policy_data.policy.pii = <<>> THEN <<>>
    ELSE pol_policy.policy_data.policy.pii[1]

\* the medium-risk findings of the audit whose match ratio is over the
\* policy's max_medium_risk_ratio
MediumOverRatio ==
    LET findings == Get(pol_audit, "pii_findings", <<>>)
    IN  {k \in 1..Len(findings) :
            /\ "max_medium_risk_ratio" \in DOMAIN PiiBlock
            /\ findings[k].highest_risk = "medium"
            /\ findings[k].match_ratio > PiiBlock.max_medium_risk_ratio}

\* C8: FilePolicy.evaluate reports a PII violation exactly when
\* block_high_risk is set and the audit has a high-risk column, or
\* max_medium_risk_ratio is set and a medium-risk finding has a match ratio
\* strictly above it (one violation per such finding), or allow_low_risk is
\* false and the audit has a low-risk column; a policy without a 'pii'
\* sub-block never reports one.
C8_PiiViolations ==
    (pol_result # <<>> /\ pol_policy.kind = "file") =>
        LET summary == Get(pol_audit, "pii_summary", <<>>)
            v == pol_result[1].violations
            high == /\ "block_high_risk" \in DOMAIN PiiBlock
                    /\ PiiBlock.block_high_risk
                    /\ Get(summary, "high_risk_columns", 0) > 0
            low == /\ "allow_low_risk" \in DOMAIN PiiBlock
                   /\ ~ PiiBlock.allow_low_risk
                   /\ Get(summary, "low_risk_columns", 0) > 0
        IN  /\ CountKind(v, "pii_high") = (IF high THEN 1 ELSE 0)
            /\ CountKind(v, "pii_medium") = Cardinality(MediumOverRatio)
            /\ CountKind(v, "pii_low") = (IF low THEN 1 ELSE 0)
            /\ pol_result[1].pii_violation <=> (high \/ MediumOverRatio # {} \/ low)
            /\ pol_policy.policy_data.policy.pii = <<>> =>
                  /\ ~ pol_result[1].pii_violation
                  /\ \A i \in 1..Len(v) : v[i].kind = "dimension"

\* a policy with all three PII settings run on an audit with a high-risk and
\* a low-risk column and two medium-risk findings, one over the maximum ratio
\* and one exactly at it: three PII violations, one of them for the ratio
C8_Witness ==
    /\ pol_result # <<>>
    /\ pol_policy.kind = "file"
    /\ Len(Get(pol_audit, "pii_findings", <<>>)) = 2
    /\ \A k \in 1..2 : pol_audit["pii_findings"][k].highest_risk = "medium"
    /\ Cardinality(MediumOverRatio) = 1
    /\ CountKind(pol_result[1].violations, "pii_medium") = 1
    /\ CountKind(pol_result[1].violations, "pii_high") = 1
    /\ CountKind(pol_result[1].violations, "pii_low") = 1
    /\ pol_result[1].pii_violation

\* the place of a kind of violation in the order of the checks
CheckRank(kind) ==
    CASE kind = "datascore" -> 1 [] kind = "completeness" -> 2
      [] kind = "drift" -> 3 [] kind = "iso" -> 4

\* the characteristics of the audit's standards-alignment block whose status
\* is CRITICAL
CriticalCharacteristics ==
    IF /\ "standards_alignment" \in DOMAIN pol_audit
       /\ pol_audit["standards_alignment"] # PyNone
    THEN LET chars == pol_audit["standards_alignment"]["characteristics"]
         IN  {chars[k].name : k \in {i \in 1..Len(chars) : chars[i].info.status = "CRITICAL"}}
    ELSE {}

\* C9: a named policy reports all the failing checks of one evaluation, in
\* the order composite score, completeness, drift, standards alignment.
\* ResearchPolicy adds one violation for overall_score < 90, one for
\* completeness < 0.95, one for more than 2 drifted columns and one per
\* CRITICAL characteristic; ProductionPolicy adds one for overall_score < 95,
\* one for completeness < 0.98 and one for more than 0 drifted columns.  The
\* number of violations is the number of failing checks.  (A score that the
\* audit does not hold is read as 0.)
C9_AccumulatedInOrder ==
    (pol_result # <<>> /\ pol_policy.kind \in {"research", "production"}) =>
        LET research == pol_policy.kind = "research"
            v == pol_result[1].violations
            score == IF "overall_score" \in DOMAIN pol_audit
                     THEN pol_audit["overall_score"] ELSE 0
            completeness ==
                IF /\ "dimension_scores" \in DOMAIN pol_audit
                   /\ "completeness" \in DOMAIN pol_audit["dimension_scores"]
                THEN pol_audit["dimension_scores"]["completeness"] ELSE 0
            drifted == Cardinality({i \in 1..Len(pol_audit["drift_results"]) :
                                       pol_audit["drift_results"][i].drift_detected})
            low_score == score < (IF research THEN 90 ELSE 95) * 100
            low_completeness == completeness < (IF research THEN 950 ELSE 980)
            too_much_drift == drifted > (IF research THEN 2 ELSE 0)
            critical == IF research THEN CriticalCharacteristics ELSE {}
        IN  /\ \A i, j \in 1..Len(v) : i < j => CheckRank(v[i].kind) <= CheckRank(v[j].kind)
            /\ CountKind(v, "datascore") = (IF low_score THEN 1 ELSE 0)
            /\ CountKind(v, "completeness") = (IF low_completeness THEN 1 ELSE 0)
            /\ CountKind(v, "drift") = (IF too_much_drift THEN 1 ELSE 0)
            /\ CountKind(v, "iso") = Cardinality(critical)
            /\ \A c \in critical : \E i \in 1..Len(v) : v[i] = Violation("iso", c)
            /\ Len(v) = (IF low_score THEN 1 ELSE 0) + (IF low_completeness THEN 1 ELSE 0)
                         + (IF too_much_drift THEN 1 ELSE 0) + Cardinality(critical)

\* a research verdict in which all four checks fail at once, two
\* characteristics being CRITICAL: five violations
C9_Witness ==
    /\ pol_result # <<>>
    /\ pol_policy.kind = "research"
    /\ Len(pol_result[1].violations) = 5
    /\ CountKind(pol_result[1].violations, "iso") = 2
    /\ \A kind \in {"datascore", "completeness", "drift"} :
          CountKind(pol_result[1].violations, kind) = 1

\* C10: for the research and the production policy alike, when the audit
\* record carries a standards-alignment block every characteristic whose
\* status is CRITICAL gives a violation, so the verdict is FAIL whenever a
\* characteristic is CRITICAL.
C10_CriticalFails ==
    (pol_result # <<>> /\ pol_policy.kind \in {"research", "production"}) =>
        /\ \A c \in CriticalCharacteristics :
              \E i \in 1..Len(pol_result[1].violations) :
                  pol_result[1].violations[i] = Violation("iso", c)
        /\ CriticalCharacteristics # {} => pol_result[1].status = "FAIL"


(***************************************************************************)
(* Claims about IntegrityEngine.run and the rule registry (EngineSpec)     *)
(***************************************************************************)
RuleNames == {RULE_REGISTRY[i] : i \in 1..Len(RULE_REGISTRY)}

\* the score a call of a rule function leaves in dimension_scores
RecordedScore(outcome) == IF outcome.raises THEN 0 ELSE outcome.score

\* C11: once run() has called the rule functions it has returned a result, in
\* which a rule that raised has dimension score 0, every other rule has the
\* score its function returned, and there is one RuleResult per rule of
\* RULE_REGISTRY carrying that score.
C11_RaisingRuleScoresZero ==
    eng_called # <<>> =>
        /\ eng_result # <<>>
        /\ DOMAIN eng_called = RuleNames
        /\ DOMAIN eng_result[1].dimension_scores = RuleNames
        /\ \A r \in RuleNames :
              eng_result[1].dimension_scores[r] = RecordedScore(eng_called[r])
        /\ Len(eng_result[1].rule_results) = Len(RULE_REGISTRY)
        /\ \A i \in 1..Len(RULE_REGISTRY) :
              /\ eng_result[1].rule_results[i].rule_id = RULE_REGISTRY[i]
              /\ eng_result[1].rule_results[i].metric_value
                    = RecordedScore(eng_called[RULE_REGISTRY[i]])

\* one rule raised, another returned a score short of 1.0, and run() returned
C11_Witness ==
    /\ eng_called # <<>>
    /\ eng_result # <<>>
    /\ eng_called["validity"].raises
    /\ ~eng_called["uniqueness"].raises
    /\ eng_result[1].dimension_scores["validity"] = 0
    /\ eng_result[1].dimension_scores["uniqueness"] = RawStep
    /\ eng_result[1].rule_results[3].rule_id = "validity"
    /\ ~eng_result[1].rule_results[3].passed

\* C13: whenever run() returns, the rules it scored are exactly the rules in the
\* plugin registry at that moment, and each RuleResult carries the severity
\* the registered class declares.
C13_RunEvaluatesRegistered ==
    [][(eng_result = <<>> /\ eng_result' # <<>>) =>
          /\ DOMAIN eng_result'[1].dimension_scores = DOMAIN _PLUGIN_REGISTRY
          /\ {eng_result'[1].rule_results[i].rule_id :
                 i \in 1..Len(eng_result'[1].rule_results)} = DOMAIN _PLUGIN_REGISTRY
          /\ \A i \in 1..Len(eng_result'[1].rule_results) :
                LET rr == eng_result'[1].rule_results[i]
                IN  rr.rule_id \in DOMAIN _PLUGIN_REGISTRY
                       => rr.severity = _PLUGIN_REGISTRY[rr.rule_id].severity]_vars

\* the position in the log of the last call that returned for the id, 0 if none
LastCall(log, rule_id) ==
    IF \E i \in 1..Len(log) : log[i].id = rule_id
    THEN CHOOSE i \in 1..Len(log) :
            /\ log[i].id = rule_id
            /\ \A j \in (i + 1)..Len(log) : log[j].id # rule_id
    ELSE 0

\* the ids the log leaves registered: last registered and not deregistered since, or
\* registered at import and never touched
RegisteredAfter(log) ==
    {rule_id \in {log[i].id : i \in 1..Len(log)} :
        log[LastCall(log, rule_id)].op = "register"}
    \cup {BuiltinRules[i].id : i \in {k \in 1..Len(BuiltinRules) :
                                        LastCall(log, BuiltinRules[k].id) = 0}}

\* the class of the most recent successful registration of the id
MostRecentClass(log, rule_id) ==
    IF LastCall(log, rule_id) = 0
    THEN BuiltinRules[CHOOSE k \in 1..Len(BuiltinRules) : BuiltinRules[k].id = rule_id]
    ELSE log[LastCall(log, rule_id)].class

\* C14: a register_rule call for an id that is in the registry raises ValueError
\* and leaves the registry as it was; after every step the registry maps each id
\* to the class of the most recent successful registration of that id (and holds
\* no id deregistered since); changing the dict get_registered_rules returned
\* leaves the registry alone, and changing the registry leaves that dict alone.
C14_RegistryDiscipline ==
    [][/\ \A rule_class \in ThirdPartyRules :
             (/\ rule_class.is_rule
              /\ rule_class.id # ""
              /\ rule_class.id \in DOMAIN _PLUGIN_REGISTRY
              /\ RegisterRule(rule_class))
                => (eng_error' = "ValueError" /\ _PLUGIN_REGISTRY' = _PLUGIN_REGISTRY)
       /\ DOMAIN _PLUGIN_REGISTRY' = RegisteredAfter(eng_log')
       /\ \A rule_id \in DOMAIN _PLUGIN_REGISTRY' :
             _PLUGIN_REGISTRY'[rule_id] = MostRecentClass(eng_log', rule_id)
       /\ (\E rule_id \in DeregisterIds : MutateSnapshot(rule_id))
             => _PLUGIN_REGISTRY' = _PLUGIN_REGISTRY
       /\ (eng_snapshot # <<>> /\ _PLUGIN_REGISTRY' # _PLUGIN_REGISTRY)
             => eng_snapshot' = eng_snapshot]_vars

\* "completeness" was deregistered and registered again with another class, the
\* caller deleted it from the dict it had been given, and a second registration
\* of the id was refused
C14_Witness ==
    /\ Len(eng_log) = 2
    /\ eng_log[1].op = "deregister" /\ eng_log[1].id = "completeness"
    /\ eng_log[2].op = "register" /\ eng_log[2].id = "completeness"
    /\ _PLUGIN_REGISTRY["completeness"].name = "LenientCompleteness"
    /\ eng_snapshot # <<>>
    /\ "completeness" \notin DOMAIN eng_snapshot[1].dict
    /\ "uniqueness" \in DOMAIN eng_snapshot[1].dict
    /\ eng_error = "ValueError"

\* C15: a run() given a configuration that validate() rejects raises, calls no
\* rule function and returns no result.
C15_InvalidConfigFatal ==
    [][\A config \in EngineConfigs, profile \in Profiles, outcomes \in RuleOutcomes :
          (validate(config) # "" /\ Run(config, profile, outcomes))
             => (eng_error' # "" /\ eng_called' = <<>> /\ eng_result' = <<>>)]_vars

(***************************************************************************)
(* Claims about the guardrails of _scan_column (PiiSpec)                   *)
(***************************************************************************)
\* C16: when the scan of a column is over, every candidate of type credit_card
\* in row_matches, whichever loop generated it, belongs to a row whose value
\* passes luhn_check, and so does every row counted under credit_card in
\* patterns_hit and in the findings.
C16_LuhnGuardsCreditCard ==
    pii_pc = "done" =>
        \A k \in 1..Len(pii_out.row_matches) :
            LET val == pii_col.cells[pii_out.row_matches[k].idx]
            IN  /\ \A j \in 1..Len(pii_out.row_matches[k].matches) :
                      pii_out.row_matches[k].matches[j].type = "credit_card"
                         => luhn_check(val)
                /\ (/\ pii_out.resolved_matches[k].type = "credit_card"
                    /\ \/ \E j \in 1..Len(pii_out.report.patterns_hit) :
                             pii_out.report.patterns_hit[j].type = "credit_card"
                       \/ \E j \in 1..Len(pii_out.report.pii_findings) :
                             pii_out.report.pii_findings[j].dominant_type = "credit_card")
                      => luhn_check(val)

\* a string of one digit repeated, more than 4 digits long
RepeatedDigit(val) ==
    /\ Len(val) > 4
    /\ \A i \in 1..Len(val) : val[i] \in Digit /\ val[i] = val[1]

\* C17: a column whose non-null values are all strings of one repeated digit,
\* longer than 4 digits, comes out of the scan with no finding and is not
\* reported as holding PII, whatever its name.
C17_RepeatedDigitsNeverReported ==
    (/\ pii_pc = "done"
     /\ \E i \in 1..Len(pii_col.cells) : pii_col.cells[i] # NULL
     /\ \A i \in 1..Len(pii_col.cells) :
           pii_col.cells[i] # NULL => RepeatedDigit(pii_col.cells[i]))
        => (/\ ~ pii_out.report.pii_detected
            /\ pii_out.report.pii_findings = <<>>)

(***************************************************************************)
(* Claims about PIIDetector.scan (ScanSpec)                                *)
(***************************************************************************)
\* the value the returned dict holds under the key
ResultGet(result, key) == result[CHOOSE k \in 1..Len(result) : result[k].key = key].value

\* the frame without the columns whose scan raises
WithoutFaultyColumns(df) == SelectSeq(df, LAMBDA series : series.dtype # "complex128")

\* C12: scan() returns whatever happens inside the scan of one column, and what
\* it returns is what it returns for the dataset without the faulty column.
C12_ColumnFaultIsolated ==
    scan_pc = "done" =>
        /\ scan_out[1].error = ""
        /\ scan_out[1].result = scan(WithoutFaultyColumns(dataset_df), scan_threshold).result

\* the first n rows of a frame, in their order
FirstRows(df, n) ==
    [c \in 1..Len(df) |->
        [name |-> df[c].name, dtype |-> df[c].dtype,
         cells |-> [i \in 1..(IF Len(df[c].cells) < n THEN Len(df[c].cells) ELSE n) |->
                        df[c].cells[i]]]]

\* C18: a scan that returned reports is_sampled exactly when the dataset has
\* more rows than sample_threshold, and sample_size as the threshold then and
\* the row count otherwise; every match_ratio is the match count over that
\* number; and a sampled scan returns what the scan of the first
\* sample_threshold rows alone returns, but for is_sampled.
C18_DeterministicSampling ==
    (scan_pc = "done" /\ scan_out[1].error = "") =>
        LET result == scan_out[1].result
            total_rows == RowCount(dataset_df)
            sampled == total_rows > scan_threshold
            size == IF sampled THEN scan_threshold ELSE total_rows
            pii_summary == ResultGet(result, PiiSummaryKey)
            head_result == scan(FirstRows(dataset_df, scan_threshold), scan_threshold).result
        IN  /\ pii_summary.is_sampled = sampled
            /\ pii_summary.sample_size = size
            /\ \A k \in 1..Len(result) :
                  result[k].key # PiiSummaryKey =>
                     \A j \in 1..Len(result[k].value.pii_findings) :
                        result[k].value.pii_findings[j].match_ratio
                           = RoundedRatio(result[k].value.pii_findings[j].matches, size)
            /\ sampled =>
                  result = DictSet(head_result, PiiSummaryKey,
                              [ResultGet(head_result, PiiSummaryKey) EXCEPT !.is_sampled = TRUE])

\* the two frames have the same column names and the same values in their first n rows
SameFirstRows(df, other, n) ==
    /\ Len(df) = Len(other)
    /\ \A c \in 1..Len(df) :
          /\ df[c].name = other[c].name
          /\ FirstRows(df, n)[c].cells = FirstRows(other, n)[c].cells

\* C18 as stated: what C18_DeterministicSampling says and, besides, the sampled
\* scans of two datasets that agree on their first sample_threshold rows return
\* the same, whatever the rows after them hold.
C18_NoLaterRowInfluence ==
    /\ C18_DeterministicSampling
    /\ (scan_pc = "done" /\ RowCount(dataset_df) > scan_threshold) =>
          \A other \in Frames :
             (RowCount(other) > scan_threshold
                /\ SameFirstRows(dataset_df, other, scan_threshold))
                => scan(other, scan_threshold) = scan_out[1]

\* a sampled scan of three rows, the third of which holds an e-mail address that
\* is not counted: one match in the two rows scanned, a match_ratio of 0.5
C18_Witness ==
    /\ scan_pc = "done"
    /\ scan_out[1].error = ""
    /\ RowCount(dataset_df) = 3
    /\ scan_threshold = 2
    /\ dataset_df[1].cells = << <<"a","@","b",".","c","o">>, NULL, <<"a","@","b",".","c","o">> >>
    /\ ResultGet(scan_out[1].result, PiiSummaryKey).is_sampled
    /\ ResultGet(scan_out[1].result, PiiSummaryKey).sample_size = 2
    /\ ResultGet(scan_out[1].result, dataset_df[1].name).pii_findings[1].matches = 1
    /\ ResultGet(scan_out[1].result, dataset_df[1].name).pii_findings[1].match_ratio = 5000

(***************************************************************************)
(* Claims about malformed audit records and policy files                   *)
(***************************************************************************)
\* C19: a named or file policy returns a verdict only for an audit record that
\* holds the keys it reads: the overall score and dimension_scores for the
\* named policies; dimension_scores, pii_summary and pii_findings for a file
\* policy.
C19_MissingKeyRaises ==
    pol_result # <<>> =>
        /\ pol_policy.kind \in {"research", "production"}
              => {"overall_score", "dimension_scores"} \subseteq DOMAIN pol_audit
        /\ pol_policy.kind = "file"
              => {"dimension_scores", "pii_summary", "pii_findings"} \subseteq DOMAIN pol_audit

\* the file is structured as {version: int, policy: {dimension: min_score, pii: {...}}}
WellStructured(file) ==
    /\ file.exists
    /\ file.yaml = "dict"
    /\ file.version = "int"
    /\ file.policy.kind = "dict"
    /\ \A k \in 1..Len(file.policy.dims) : file.policy.dims[k].kind = "number"
    /\ file.policy.pii.kind \in {"absent", "dict"}

\* C20: once the constructor has run on a file that is missing, unparsable or
\* not well structured, it has raised: no policy was constructed from the file
\* and evaluate was not reached with its data.
C20_InvalidFileFailsAtLoad ==
    (pf_pc \notin {"idle", "ready"} /\ ~ WellStructured(pf_file)) =>
        /\ pf_pc = "failed"
        /\ pf_error # ""
        /\ pf_data = <<>>
        /\ pf_result = <<>>


(***************************************************************************)
(* Claims about what an audit leaves behind and the order of its output    *)
(***************************************************************************)
\* C21: a call of IntegrityEngine.run changes nothing outside its return value:
\* the profile of the Dataset passed in and the rule registry are after the
\* call what they were before it.
C21_AuditSideEffectFree ==
    [][\A config \in EngineConfigs, profile \in Profiles, outcomes \in RuleOutcomes :
          Run(config, profile, outcomes)
             => UNCHANGED <<dataset_profile, _PLUGIN_REGISTRY>>]_vars


\* C22: the result of a scan does not depend on the order of the dataset's
\* columns: the scan of the same columns in the opposite order returns the same
\* items (column reports and summary) in the same order.
C22_OutputOrderIndependent ==
    scan_pc = "done" =>
        scan(Reverse(dataset_df), scan_threshold) = scan_out[1]


(***************************************************************************)
(* Claims about the stores on disk (StoreSpec, HistorySpec)                *)
(***************************************************************************)
\* C23: once both concurrent calls of save are over, whatever the interleaving
\* of their steps, neither has raised, the store file exists, json.loads reads
\* it as a payload, and its versions include the version of each call.
C23_ConcurrentSavesKeepBoth ==
    (\A p \in SaveCalls : vs_pc[p] = "done") =>
        /\ \A p \in SaveCalls : vs_error[p] = ""
        /\ vs_store # 0
        /\ vs_inodes[vs_store].ok
        /\ \A p \in SaveCalls :
              \E k \in 1..Len(vs_inodes[vs_store].versions) :
                  vs_inodes[vs_store].versions[k] = p


\* the summaries of the calls of record made for a fingerprint, in call order
RecordedFor(fingerprint) ==
    LET made == SelectSeq(hist_calls, LAMBDA result : result.dataset_fingerprint = fingerprint)
    IN  [k \in 1..Len(made) |-> _summary_from_result(made[k])]

IsPrefixOf(s, t) == Len(s) <= Len(t) /\ \A k \in 1..Len(s) : s[k] = t[k]

\* C24: at every moment load_history(fp) is the sequence of the summaries of
\* the record calls made for fp, one per call and oldest first, and
\* get_score_trend(fp) is the sequence of their overall_score values; and no
\* step removes, moves or changes an entry load_history returned before it.
C24_HistoryAppendOnly ==
    /\ [](\A fingerprint \in Fingerprints :
            /\ load_history(hist_files, fingerprint) = RecordedFor(fingerprint)
            /\ get_score_trend(hist_files, fingerprint) =
                 [k \in 1..Len(RecordedFor(fingerprint)) |->
                     RecordedFor(fingerprint)[k].overall_score])
    /\ [][\A fingerprint \in Fingerprints :
            IsPrefixOf(load_history(hist_files, fingerprint),
                       load_history(hist_files', fingerprint))]_vars

\* three audits were recorded, two of one dataset with one of another between
\* them, and the trend of the first dataset was read
C24_Witness ==
    /\ Len(hist_calls) = 3
    /\ hist_calls[1].dataset_fingerprint = "fp_a"
    /\ hist_calls[2].dataset_fingerprint = "fp_b"
    /\ hist_calls[3].dataset_fingerprint = "fp_a"
    /\ hist_calls[1].overall_score # hist_calls[3].overall_score
    /\ hist_out # <<>>
    /\ hist_out[1].call = "get_score_trend"
    /\ hist_out[1].fingerprint = "fp_a"
    /\ hist_out[1].returned = <<hist_calls[1].overall_score, hist_calls[3].overall_score>>


(***************************************************************************)
(* Claims about the reports of _scan_column and scan (PiiSpec, ScanSpec)   *)
(***************************************************************************)
AllSameDigit(ds) == \A i \in 1..Len(ds) : ds[i] = ds[1]

\* each digit is greater (step > 0) or smaller (step < 0) than the one before
StrictlyMonotone(ds, step) ==
    \A i \in 1..(Len(ds) - 1) :
        IF step > 0 THEN DigitValue(ds[i]) < DigitValue(ds[i + 1])
        ELSE DigitValue(ds[i]) > DigitValue(ds[i + 1])

\* each digit is the one before plus step: a contiguous part of 0123456789
\* (step 1) or of 9876543210 (step -1)
ConsecutiveRun(ds, step) ==
    \A i \in 1..(Len(ds) - 1) : DigitValue(ds[i + 1]) = DigitValue(ds[i]) + step

\* the candidates row_matches holds for the row, <<>> if it holds none
CandidatesOfRow(idx) ==
    IF \E k \in 1..Len(pii_out.row_matches) : pii_out.row_matches[k].idx = idx
    THEN pii_out.row_matches[CHOOSE k \in 1..Len(pii_out.row_matches) :
                                pii_out.row_matches[k].idx = idx].matches
    ELSE <<>>

\* the value passes every test of the loop of the configured pattern but the
\* noise filter (lines 175, 179, 185)
LegacyOtherwiseAccepted(p, val) ==
    /\ Search(p.regex, val)
    /\ ~ (has_decimals(pii_col) /\ p.name \in {"phone", "ssn", "credit_card"})
    /\ ~ (is_numeric_dtype(pii_col) /\ p.name = "phone" /\ IsDigitStr(val))

\* the same for the loop of a registry entity (lines 201, 205, 207, 214)
EntityOtherwiseAccepted(entity, val) ==
    /\ Search(entity.regex, val)
    /\ ~ (has_decimals(pii_col) /\ entity.category \in {"identity", "financial"})
    /\ ~ (entity.type = "credit_card" /\ ~ luhn_check(val))
    /\ ~ (is_numeric_dtype(pii_col) /\ entity.type = "passport" /\ IsDigitStr(val))

\* every row of the scanned column is treated as the filter Noise says: a
\* noisy value is a candidate of no pattern and no entity, any other value is
\* a candidate of each pattern and entity whose other tests it passes
FilterBehavesAs(Noise(_)) ==
    pii_pc = "done" =>
        \A i \in 1..Len(pii_col.cells) :
            LET val == pii_col.cells[i]
                cands == CandidatesOfRow(i)
            IN  val # NULL =>
                  IF Noise(DigitsOf(val)) THEN cands = <<>>
                  ELSE /\ \A k \in 1..Len(pii_patterns) :
                            LegacyOtherwiseAccepted(pii_patterns[k], val)
                               => \E j \in 1..Len(cands) :
                                     /\ cands[j].category = "legacy"
                                     /\ cands[j].type = pii_patterns[k].name
                       /\ \A k \in 1..Len(GLOBAL_PII_REGISTRY) :
                            EntityOtherwiseAccepted(GLOBAL_PII_REGISTRY[k], val)
                               => \E j \in 1..Len(cands) :
                                     /\ cands[j].category # "legacy"
                                     /\ cands[j].type = GLOBAL_PII_REGISTRY[k].type

\* C25 as amended: the noise filter rejects a value, for every configured
\* pattern and every registry entity, exactly when its digits are more than 4
\* and are all identical or a run of consecutive ascending or descending digits.
C25_NoiseFilterConsecutive ==
    FilterBehavesAs(LAMBDA ds : /\ Len(ds) > 4
                                /\ \/ AllSameDigit(ds)
                                   \/ ConsecutiveRun(ds, 1)
                                   \/ ConsecutiveRun(ds, -1))

\* C25 as stated: the noise filter rejects a value exactly when its digits are
\* more than 4 and are all identical or strictly ascending or strictly descending.
C25_NoiseFilterMonotone ==
    FilterBehavesAs(LAMBDA ds : /\ Len(ds) > 4
                                /\ \/ AllSameDigit(ds)
                                   \/ StrictlyMonotone(ds, 1)
                                   \/ StrictlyMonotone(ds, -1))

\* a column with a value of nine consecutive digits, which is no candidate,
\* and a value of four ascending digits, which is one
C25_Witness ==
    /\ pii_pc = "done"
    /\ pii_col.cells = << <<"1","2","3","-","4","5","-","6","7","8","9">>,
                          <<"A","B","1","2","3","4">> >>
    /\ Len(pii_out.row_matches) = 1
    /\ pii_out.row_matches[1].idx = 2
    /\ \E j \in 1..Len(pii_out.row_matches[1].matches) :
          pii_out.row_matches[1].matches[j].type = "passport"


RECURSIVE SumMatches(_)
SumMatches(findings) ==
    IF findings = <<>> THEN 0
    ELSE findings[1].matches + SumMatches(SubSeq(findings, 2, Len(findings)))

\* C26: in the report of a scanned column, count is the sum of matches over the
\* findings that survived the ratio and entropy filters; with no surviving
\* finding count is 0 and pii_detected is false.
C26_CountIsSurvivingMatches ==
    pii_pc = "done" =>
        /\ pii_out.report.count = SumMatches(pii_out.report.pii_findings)
        /\ pii_out.report.pii_findings = <<>> => ~ pii_out.report.pii_detected


\* the column reports of a scan result: its items but the summary
ColumnReports(result) == SelectSeq(result, LAMBDA item : item.key # PiiSummaryKey)

RECURSIVE SumCounts(_)
SumCounts(items) ==
    IF items = <<>> THEN 0
    ELSE items[1].value.count + SumCounts(SubSeq(items, 2, Len(items)))

\* the number of reported columns whose worst finding has the risk level
ColumnsAtRisk(items, risk) ==
    Cardinality({k \in 1..Len(items) :
                    /\ items[k].value.pii_findings # <<>>
                    /\ HighestRisk(items[k].value.pii_findings, 1, "low") = risk})

\* C27: in the summary of a scan, the three risk counters are the numbers of
\* reported columns whose worst surviving finding has that level, they add up to
\* total_columns_with_pii, and total_matches is the sum of the reported
\* columns' count values.
C27_SummaryCountsEveryColumn ==
    (scan_pc = "done" /\ scan_out[1].error = "") =>
        LET result == scan_out[1].result
            summary == ResultGet(result, PiiSummaryKey)
            reports == ColumnReports(result)
        IN  /\ summary.high_risk_columns = ColumnsAtRisk(reports, "high")
            /\ summary.medium_risk_columns = ColumnsAtRisk(reports, "medium")
            /\ summary.low_risk_columns = ColumnsAtRisk(reports, "low")
            /\ summary.high_risk_columns + summary.medium_risk_columns
                 + summary.low_risk_columns = summary.total_columns_with_pii
            /\ summary.total_matches = SumCounts(reports)


\* the non-null values of the scanned column, in row order
NonNullCells == SelectSeq(pii_col.cells, LAMBDA cell : cell # NULL)

RECURSIVE TotalLen(_)
TotalLen(values) ==
    IF values = <<>> THEN 0 ELSE Len(values[1]) + TotalLen(SubSeq(values, 2, Len(values)))

\* the three conditions on the column's name and values
NameAndValuesQualify ==
    LET first100 == SubSeq(NonNullCells, 1,
                           IF Len(NonNullCells) < 100 THEN Len(NonNullCells) ELSE 100)
        distinct == {NonNullCells[k] : k \in 1..Len(NonNullCells)}
    IN  /\ \E kw \in { <<"i","d">>, <<"i","d","e","n","t","i","f","i","e","r">>,
                       <<"n","a","t","i","o","n","a","l">>, <<"t","a","x">>, <<"g","o","v">>,
                       <<"r","e","g","i","s","t","r","a","t","i","o","n">> } :
              IsSubstring(kw, Lower(pii_col.name))
        /\ first100 # <<>>
        /\ 8 * Len(first100) <= TotalLen(first100)
        /\ TotalLen(first100) <= 20 * Len(first100)
        /\ 10 * Cardinality(distinct) > 8 * Len(pii_col.cells)

C29_ProductionAtLeastAsStrict ==
    (/\ pol_result # <<>>
     /\ pol_policy.kind = "production"
     /\ pol_result[1].status = "PASS") =>
        ResearchPolicy_evaluate(pol_audit).status = "PASS"

\* the same comparison on the records that carry no CRITICAL characteristic
ProductionStricterWithoutCritical ==
    (/\ pol_result # <<>>
     /\ pol_policy.kind = "production"
     /\ pol_result[1].status = "PASS"
     /\ IsoViolations(pol_audit) = <<>>) =>
        ResearchPolicy_evaluate(pol_audit).status = "PASS"



(***************************************************************************)
(* Claims about the keys of the scan result (ScanSpec)                     *)
(***************************************************************************)
\* the findings of the columns of scan_df that are scanned and found to hold PII
RECURSIVE DetectedFindings(_, _, _)
DetectedFindings(scan_df, k, scan_total) ==
    IF k > Len(scan_df) THEN <<>>
    ELSE (IF SkipsColumn(scan_df[k]) THEN <<>>
          ELSE LET report == _scan_column(scan_df[k].name, scan_df[k], scan_total).report
               IN  IF report.pii_detected THEN report.pii_findings ELSE <<>>)
         \o DetectedFindings(scan_df, k + 1, scan_total)

\* C30: whatever the columns are called, the result of scan holds the summary
\* under 'pii_summary' and the report of every column with PII under the
\* column's own name; the number of column reports in the result equals
\* total_columns_with_pii, and the flat pii_findings of to_dict are the
\* findings of all these columns.
C30_NoReportOverwritten ==
    (scan_pc = "done" /\ scan_out[1].error = "") =>
        LET result == scan_out[1].result
            is_sampled == RowCount(dataset_df) > scan_threshold
            scan_total == IF is_sampled THEN scan_threshold ELSE RowCount(dataset_df)
            scan_df == IF is_sampled THEN iloc(dataset_df, scan_threshold) ELSE dataset_df
            summary == ResultGet(result, PiiSummaryKey)
            reports == ColumnReports(result)
        IN  /\ "total_columns_with_pii" \in DOMAIN summary
            /\ Len(reports) = summary.total_columns_with_pii
            /\ \A c \in 1..Len(scan_df) :
                  LET report == _scan_column(scan_df[c].name, scan_df[c], scan_total).report
                  IN  (~ SkipsColumn(scan_df[c]) /\ report.pii_detected) =>
                         \E k \in 1..Len(reports) :
                            reports[k].key = scan_df[c].name /\ reports[k].value = report
            /\ flat_findings(result) = DetectedFindings(scan_df, 1, scan_total)

\* the same statement for the datasets that have no column named 'pii_summary'
NoReportOverwrittenUnlessNamedSummary ==
    (\A c \in 1..Len(dataset_df) : dataset_df[c].name # PiiSummaryKey) => C30_NoReportOverwritten

=========================================================================
